---- MODULE Spec2Model ----
(***************************************************************************)
(* Verification model of the diodes transfer tools:                        *)
(*   vx/vxt.py, vx/vxr.py   dotmatrix transmitter / receiver               *)
(*   ax/axt.py, ax/axr.py   audio channel transmitter / receiver           *)
(*   kx/kxt.py              keyboard transmitter                           *)
(* Each subsystem has its own specification over its own variables; the    *)
(* variables of the other subsystems stay at their idle values.            *)
(***************************************************************************)
EXTENDS Integers, Sequences, FiniteSets, TLC

VARIABLES
    vle_pc,     \* VLE harness: "init" -> "enc" -> "dec"
    vle_v,      \* VLE harness: the integer handed to enc_vle
    vle_enc,    \* VLE harness: bytes returned by enc_vle
    vle_dec     \* VLE harness: (value, nate) returned by dec_vle

VARIABLES
    ax_nch,     \* audio: channel count (A.nch)
    ax_B,       \* audio: the whole input of the transmitter (never changes)
    ax_in,      \* audio: bytes of standard input the transmitter has not read yet
    ax_rem,     \* audio: axt A.run rem
    ax_tpc,     \* audio: axt main loop, "run" or "closed" (encoder inputs closed)
    ax_wire,    \* audio: per channel, bytes written to the encoder and not yet
                \*        read from the decoder by the receiver's rd thread
    ax_pad,     \* audio: per channel, axr A.rd padding
    ax_dec,     \* audio: axr A.dec
    ax_out,     \* audio: bytes the receiver wrote to standard output
    ax_emitted, \* audio: axr A.emitted
    ax_exit,    \* audio: exit code of the receiver once it called sys.exit, else 0
    ax_emit,    \* audio: how the latest call of axr A.emit ended: "wait" (return
                \*        False from the header checks), "empty" (return False,
                \*        channel 0 empty), "written" (return True), "exit";
                \*        "none" once a reader thread has changed A.dec since
    ax_err,     \* audio: TRUE once the channel has garbled a byte
    ax_rd,      \* audio: axr A.rd run alone on one decoder: out, the decoder
                \*        output not read yet; pad, its padding; dec, its
                \*        self.dec[ch]; got, every byte read so far
    ax_run      \* audio: the input loop of axr A.run alone: pc; vhist; runtime;
                \*        n, the iterations done; mode, "quiet" once the input
                \*        stays below 0.1

VARIABLES
    vx_files,   \* dotmatrix: the files of the command line, per file its name,
                \*            size, mtime and bytes (never changes)
    vx_term,    \* dotmatrix: <<w, h>> of termsize() (never changes)
    vx_tpc,     \* dotmatrix: vxt, "run" or "crashed" (uncaught exception)
    vx_frames,  \* dotmatrix: vxt Vxt.frames
    vx_cur,     \* dotmatrix: vxt Vxt.run cur_frame
    vx_pend,    \* dotmatrix: vxt Vxt.run pend
    vx_scr,     \* dotmatrix: the cells on the transmitter's terminal
    vx_kq,      \* dotmatrix: 'd' keystrokes the receiver sent and the
                \*            transmitter has not read yet
    vx_ops,     \* dotmatrix: keys typed by the operator at the transmitter
    vx_asm,     \* dotmatrix: vxr, the Assembler
    vx_cap,     \* dotmatrix: vxr main pyuv, <<>> for None
    vx_rpc,     \* dotmatrix: vxr, "run", "done" (put returned True) or "dead"
                \*            (uncaught exception)
    vx_verdict, \* dotmatrix: how the latest pass of the decode loop ended: "same"
                \*            (capture equal to the previous one), "badsum",
                \*            "wrongno" or "put"
    vx_fed,     \* dotmatrix: the frame numbers handed to Assembler.put, in order
    vx_raw      \* dotmatrix: a stream of bytes put into the Assembler without
                \*            the screen: all, its bytes; pos, how many were put

VARIABLES
    kb_kbd,     \* keyboard: the backend of the Typist, "xdotool" or "pynput"
    kb_q,       \* keyboard: Typist.q, <<>> stands for the None of end_input
    kb_nput,    \* keyboard: calls of Typist.put made so far
    kb_ended,   \* keyboard: TRUE once main called Typist.end_input
    kb_dead,    \* keyboard: Typist.dead
    kb_batch,   \* keyboard: Kbd_Xdotool.batch
    kb_typed,   \* keyboard: the keys the backend has typed into the focused window
    kb_focus,   \* keyboard: the focused window, "none" when it cannot be found
    kb_due,     \* keyboard: TRUE when more than 0.5 s have passed since
                \*           last_focus_check
    kb_errs,    \* keyboard: number of "lost focus to" lines logged
    kb_wpc,     \* keyboard: the thread Typist._w, "run", "end" (returned) or
                \*           "crashed" (uncaught exception)
    kb_lost     \* keyboard: <<>>, or <<n>> once _w has seen another window
                \*           focused, n the number of keys typed until then

VARIABLES
    kx_cfg,     \* keyboard: plain (ar.plain), wrap (ar.length) and src, the
                \*           chunks the stage below StreamHash yields before its
                \*           None (never changes)
    kx_pos,     \* keyboard: how many yields of that stage have been consumed
    kx_hash,    \* keyboard: StreamHash: upd, the buffers given to hasher.update;
                \*           out, the buffers yielded; pc, "run" or "eof" (None
                \*           yielded)
    kx_b64,     \* keyboard: StreamBase64: buf; blk, the blocks given to
                \*           b64encode; out, the chunks yielded; pc, "run", "eof"
                \*           (the block of the end of stream yielded) or "done"
    kx_main,    \* keyboard: main: leftovers; puts, the calls of kbd.put; md5,
                \*           <<>> until get_hash is called; pc, "loop" or "done"
    kx_boot     \* keyboard: main before its loop: pc; nfiles, arc, plain and
                \*           focus, the run's inputs; archive; wfp and hwnd,
                \*           TRUE once assigned; stages, the stream objects
                \*           built; typist; typed, the kbd.put calls; exit

VARIABLES
    vx_ff,      \* dotmatrix: the capture thread FFmpeg.run and the wait of vxr
                \*            main on it, alone: proc, the capture process;
                \*            tpc, the thread; fails; rem, the parts of a bitmap
                \*            still to read; pic, the bitmap being read; last,
                \*            lastframe; yuv, FFmpeg.yuv; mpc, main; pyuv; got,
                \*            what take_yuv returned last (0 for None)
    ax_dbg,     \* audio: the debug splitter and joiner, alone: nf; B, the
                \*        input of the splitter; in, what it has not read yet;
                \*        rem; files, the bytes of tag0 .. tag(nf-1); dpc, the
                \*        splitter; pos, how far the joiner has read each
                \*        file; out, its standard output; mpc, the joiner
    ax_th,      \* audio: the threads of one tool around A.samples (axt) or
                \*        A.dec (axr), alone: tool; nch; full, per channel all
                \*        that its process will ever put out; fed, the reads
                \*        of standard input axt main has passed on; rdpos, per
                \*        channel how much A.rd has read; pad, per channel the
                \*        padding of axr A.rd; buf, A.samples or A.dec; took,
                \*        per channel what axr A.emit removed; out, what
                \*        A.emit wrote; spins; epc, the emitter thread; mpc,
                \*        axt A.run; res, how the latest axr A.emit ended
                \*        ("none" once A.rd has run since)
    kx_wl,      \* keyboard: the loop of main that cuts the encoded text into
                \*           lines, alone: wrap, ar.length; buf; chunks, the
                \*           buffers taken from the stream; passes, the
                \*           passes of the while loop made on this buffer
                \*           (MaxPasses: that many or more); pc
    kx_tar,     \* keyboard: StreamTar and its thread, alone: files, the paths
                \*           of the command line; added, the add_file calls
                \*           made; ended, end_input called; srcdirs,
                \*           srcfiles, the two input queues (0 for None);
                \*           qfile, QFile.q (-1 the blocks of tar.close, 0
                \*           None); gpc, the thread _gen; hold, the block it
                \*           is about to write; taken, what collect has got
    ax_fl       \* audio: the lengths in the main loop of axt A.run, alone, at
                \*        the widths of the source: nch; rem, the bytes
                \*        carried over; lens, per channel the payload length
                \*        of the latest iteration; field, what struct.pack
                \*        put into the length field (-1: it raised); iter,
                \*        the iterations made; pc

vleVars == <<vle_pc, vle_v, vle_enc, vle_dec>>

axVars == <<ax_nch, ax_B, ax_in, ax_rem, ax_tpc, ax_wire, ax_pad, ax_dec,
            ax_out, ax_emitted, ax_exit, ax_emit, ax_err, ax_rd, ax_run>>

vxVars == <<vx_files, vx_term, vx_tpc, vx_frames, vx_cur, vx_pend, vx_scr, vx_kq,
            vx_ops, vx_asm, vx_cap, vx_rpc, vx_verdict, vx_fed, vx_raw>>

kbVars == <<kb_kbd, kb_q, kb_nput, kb_ended, kb_dead, kb_batch, kb_typed, kb_focus,
            kb_due, kb_errs, kb_wpc, kb_lost>>

kxVars == <<kx_cfg, kx_pos, kx_hash, kx_b64, kx_main, kx_boot>>

hxVars == <<vx_ff, ax_dbg, ax_th, kx_wl, kx_tar, ax_fl>>

vars == <<vleVars, axVars, vxVars, kbVars, kxVars, hxVars>>

\* what the actions of one subsystem leave alone
notVle == <<axVars, vxVars, kbVars, kxVars, hxVars>>

notAx == <<vleVars, vxVars, kbVars, kxVars, hxVars>>

notVx == <<vleVars, axVars, kbVars, kxVars, hxVars>>

notKb == <<vleVars, axVars, vxVars, kxVars, hxVars>>

notKx == <<vleVars, axVars, vxVars, kbVars, hxVars>>

notHx == <<vleVars, axVars, vxVars, kbVars, kxVars>>

notFf == <<notHx, ax_dbg, ax_th, kx_wl, kx_tar, ax_fl>>

notDbg == <<notHx, vx_ff, ax_th, kx_wl, kx_tar, ax_fl>>

notTh == <<notHx, vx_ff, ax_dbg, kx_wl, kx_tar, ax_fl>>

notFl == <<notHx, vx_ff, ax_dbg, ax_th, kx_wl, kx_tar>>

notTar == <<notHx, vx_ff, ax_dbg, ax_th, kx_wl, ax_fl>>

notWl == <<notHx, vx_ff, ax_dbg, ax_th, kx_tar, ax_fl>>

\* Assembler.__init__; fs is the receiver's file system under inc/: per path
\* the bytes written and the restored modification time (none yet: <<>>);
\* fds counts the file objects that open() returned and close() has not closed
NewAssembler ==
    [buf |-> <<>>, remainder |-> <<>>, next_frame |-> 0, frametab |-> <<>>,
     fig_no |-> 0, files_total |-> <<>>, bytes_total |-> <<>>,
     files_done |-> 0, bytes_done |-> 0, payload |-> <<>>,
     fs |-> <<>>, fds |-> 0, exc |-> ""]

\* no stream of bytes
NoRaw == [all |-> <<>>, pos |-> 0]

\* the dotmatrix tools are not running
IdleVx ==
    /\ vx_files = <<>>
    /\ vx_term = <<0, 0>>
    /\ vx_tpc = "idle"
    /\ vx_frames = <<>>
    /\ vx_cur = -1
    /\ vx_pend = [n |-> -1, scr |-> <<>>]
    /\ vx_scr = <<>>
    /\ vx_kq = 0
    /\ vx_ops = 0
    /\ vx_asm = NewAssembler
    /\ vx_cap = <<>>
    /\ vx_rpc = "idle"
    /\ vx_verdict = "none"
    /\ vx_fed = <<>>
    /\ vx_raw = NoRaw

\* StreamHash.__init__
NewStreamHash == [upd |-> <<>>, out |-> <<>>, pc |-> "run"]

\* StreamBase64.__init__
NewStreamBase64 == [buf |-> <<>>, blk |-> <<>>, out |-> <<>>, pc |-> "run"]

\* the keyboard transmitter is not running
IdleKb ==
    /\ kb_kbd = "none"
    /\ kb_q = <<>>
    /\ kb_nput = 0
    /\ kb_ended = FALSE
    /\ kb_dead = FALSE
    /\ kb_batch = <<>>
    /\ kb_typed = <<>>
    /\ kb_focus = "none"
    /\ kb_due = FALSE
    /\ kb_errs = 0
    /\ kb_wpc = "idle"
    /\ kb_lost = <<>>

\* main not started
NoBoot ==
    [pc |-> "idle", nfiles |-> 0, arc |-> FALSE, plain |-> FALSE, focus |-> "ok",
     archive |-> FALSE, wfp |-> FALSE, hwnd |-> FALSE, stages |-> <<>>,
     typist |-> FALSE, typed |-> <<>>, exit |-> 0]

IdleKx ==
    /\ kx_cfg = [plain |-> FALSE, wrap |-> 0, src |-> <<>>]
    /\ kx_pos = 0
    /\ kx_hash = NewStreamHash
    /\ kx_b64 = NewStreamBase64
    /\ kx_main = [leftovers |-> <<>>, puts |-> <<>>, md5 |-> <<>>, pc |-> "idle"]
    /\ kx_boot = NoBoot

\* no capture thread
NoFf ==
    [proc |-> "none", tpc |-> "idle", fails |-> 0, rem |-> 0, pic |-> 0,
     last |-> 0, yuv |-> 0, mpc |-> "idle", pyuv |-> 0, got |-> 0]

\* no debug splitter and joiner
NoDbg ==
    [nf |-> 0, B |-> <<>>, in |-> <<>>, rem |-> <<>>, files |-> <<>>,
     dpc |-> "idle", pos |-> <<>>, out |-> <<>>, mpc |-> "idle"]

\* no threads
NoTh ==
    [tool |-> "none", nch |-> 0, full |-> <<>>, fed |-> 0, rdpos |-> <<>>,
     pad |-> <<>>, buf |-> <<>>, took |-> <<>>, out |-> <<>>, spins |-> 0,
     epc |-> "idle", mpc |-> "idle", res |-> "none"]

\* no line loop
NoWl == [wrap |-> 0, buf |-> <<>>, chunks |-> 0, passes |-> 0, pc |-> "idle"]

\* no tar source
NoTar ==
    [files |-> 0, added |-> 0, ended |-> FALSE, srcdirs |-> <<>>, srcfiles |-> <<>>,
     qfile |-> <<>>, gpc |-> "idle", hold |-> <<>>, taken |-> <<>>]

\* no main loop of lengths
NoFl == [nch |-> 0, rem |-> 0, lens |-> <<>>, field |-> <<>>, iter |-> 0, pc |-> "idle"]

IdleHx ==
    /\ vx_ff = NoFf
    /\ ax_fl = NoFl
    /\ kx_tar = NoTar
    /\ kx_wl = NoWl
    /\ ax_dbg = NoDbg
    /\ ax_th = NoTh

(***************************************************************************)
(* Generic helpers                                                         *)
(***************************************************************************)
Min(a, b) == IF a < b THEN a ELSE b

Max(a, b) == IF a > b THEN a ELSE b

Take(s, n) == SubSeq(s, 1, Min(n, Len(s)))

Drop(s, n) == SubSeq(s, Min(n, Len(s)) + 1, Len(s))

\* the element of a set of one element; {e : x \in {v}} names the value v as x
\* inside e, so that v is written, and evaluated, once
Only(S) == CHOOSE x \in S : TRUE

(***************************************************************************)
(* Python integers are unbounded.  A value is kept as three 28-bit limbs   *)
(* <<w0, w1, w2>> standing for w0 + w1 * 2^28 + w2 * 2^56, so that every   *)
(* 7-bit VLE group falls inside one limb and nothing wraps around.         *)
(***************************************************************************)
LimbBits == 28

LimbMod == 268435456

Wide(n) == <<n % LimbMod, n \div LimbMod, 0>>

Narrow(w) == w[1] + w[2] * LimbMod

WZero == <<0, 0, 0>>

\* value >= 0x80
WGe128(w) == w[1] >= 128 \/ w[2] > 0 \/ w[3] > 0

\* divmod(value, 0x80)
WDiv128(w) ==
    << (w[1] \div 128) + (w[2] % 128) * 2097152,
       (w[2] \div 128) + (w[3] % 128) * 2097152,
       w[3] \div 128 >>

WMod128(w) == w[1] % 128

Pow2(n) == IF n = 0 THEN 1 ELSE IF n = 7 THEN 128 ELSE IF n = 14 THEN 16384 ELSE 2097152

\* vret | (g << vpow) for a 7-bit group g, vpow a multiple of 7 below 63
WOrShift(w, g, vpow) ==
    LET limb == (vpow \div LimbBits) + 1
        sh   == vpow % LimbBits
    IN  [w EXCEPT ![limb] = @ + g * Pow2(sh)]

(***************************************************************************)
(* vx/vxt.py enc_vle, vx/vxr.py dec_vle                                    *)
(***************************************************************************)
RECURSIVE enc_vle_loop(_, _)
enc_vle_loop(value, ret) ==
    IF WGe128(value)
    THEN enc_vle_loop(WDiv128(value), Append(ret, WMod128(value) + 128))
    ELSE Append(ret, WMod128(value))

RECURSIVE enc_vle_loop_gt(_, _)
enc_vle_loop_gt(value, ret) ==
    IF value[1] > 128 \/ value[2] > 0 \/ value[3] > 0
    THEN enc_vle_loop_gt(WDiv128(value), Append(ret, WMod128(value) + 128))
    ELSE Append(ret, value[1])

\* mutant: "while value > 0x80" leaves 0x80 as a one-byte code
enc_vle_gt(value) == enc_vle_loop_gt(value, <<>>)

enc_vle(value) == enc_vle_loop(value, <<>>)

VleFail == [val |-> <<-1>>, ate |-> 0]

\* the for loop of dec_vle over an iterator of buf that has already yielded
\* pos items; used is the number of items this call takes from the iterator
RECURSIVE dec_vle_loop(_, _, _, _, _)
dec_vle_loop(buf, pos, vret, vpow, nate) ==
    IF pos + nate >= Len(buf)
    THEN [val |-> <<-1>>, ate |-> 0, used |-> nate]     \* need more bytes
    ELSE LET v == buf[pos + nate + 1]
         IN  IF v < 128
             THEN [val |-> WOrShift(vret, v, vpow), ate |-> nate + 1, used |-> nate + 1]
             ELSE IF vpow + 7 >= 63
                  THEN [val |-> <<-1>>, ate |-> 0, used |-> nate + 1]   \* VLE too big
                  ELSE dec_vle_loop(buf, pos, WOrShift(vret, v - 128, vpow),
                                    vpow + 7, nate + 1)

dec_vle_it(buf, pos) == dec_vle_loop(buf, pos, WZero, 0, 0)

\* dec_vle(buf): the pair (value, nate)
dec_vle(buf) ==
    LET r == dec_vle_it(buf, 0) IN [val |-> r.val, ate |-> r.ate]

(***************************************************************************)
(* VLE harness: encode a value, then decode the bytes                      *)
(***************************************************************************)
MaxSmallV == 40

\* limb values around every byte-length boundary of the code
VleEdge == {0, 1, 127, 128, 129, 16383, 16384, 2097151, 2097152, LimbMod - 1}

VleInputs ==
    {<<a, 0, 0>> : a \in 0 .. MaxSmallV} \cup
    {<<a, b, c>> : a \in VleEdge, b \in VleEdge, c \in {0, 1, 127, 128}}

\* no decoder output to read
IdleRd == [out |-> <<>>, pad |-> TRUE, dec |-> <<>>, got |-> <<>>]

\* the input loop not started
IdleRun == [pc |-> "idle", vhist |-> <<>>, runtime |-> 0, n |-> 0, mode |-> "any"]

IdleAx ==
    /\ ax_nch = 0
    /\ ax_B = <<>>
    /\ ax_in = <<>>
    /\ ax_rem = <<>>
    /\ ax_tpc = "idle"
    /\ ax_wire = <<>>
    /\ ax_pad = <<>>
    /\ ax_dec = <<>>
    /\ ax_out = <<>>
    /\ ax_emitted = 0
    /\ ax_exit = 0
    /\ ax_emit = "none"
    /\ ax_err = FALSE
    /\ ax_rd = IdleRd
    /\ ax_run = IdleRun

IdleVle ==
    /\ vle_pc = "idle"
    /\ vle_v = WZero
    /\ vle_enc = <<>>
    /\ vle_dec = VleFail

InitVle ==
    /\ vle_pc = "init"
    /\ vle_v \in VleInputs
    /\ vle_enc = <<>>
    /\ vle_dec = VleFail
    /\ IdleAx
    /\ IdleVx
    /\ IdleKb
    /\ IdleKx
    /\ IdleHx

VleEncode ==
    /\ vle_pc = "init"
    /\ vle_enc' = enc_vle(vle_v)
    /\ vle_pc' = "enc"
    /\ UNCHANGED <<vle_v, vle_dec, notVle>>

VleDecode ==
    /\ vle_pc = "enc"
    /\ vle_dec' = dec_vle(vle_enc)
    /\ vle_pc' = "dec"
    /\ UNCHANGED <<vle_v, vle_enc, notVle>>

NextVle == VleEncode \/ VleDecode

SpecVle == InitVle /\ [][NextVle]_vars

\* v < 2^56
Below2p56(w) == w[3] = 0

\* C8: for every v with 0 <= v < 2^56, dec_vle(enc_vle(v)) = (v, len(enc_vle(v))),
\* every byte of enc_vle(v) but the last has bit 7 set and the last has it clear
C8_VleRoundTrip ==
    (vle_pc = "dec" /\ Below2p56(vle_v)) =>
        /\ vle_dec = [val |-> vle_v, ate |-> Len(vle_enc)]
        /\ Len(vle_enc) >= 1
        /\ \A i \in 1 .. Len(vle_enc) - 1 : vle_enc[i] >= 128 /\ vle_enc[i] <= 255
        /\ vle_enc[Len(vle_enc)] < 128

\* an eight-byte code (2^49 <= v < 2^56) has been decoded
C8_Witness ==
    /\ vle_pc = "dec"
    /\ Below2p56(vle_v)
    /\ Len(vle_enc) = 8
    /\ vle_dec.ate = 8

(***************************************************************************)
(* Audio channel transmitter (ax/axt.py) and receiver (ax/axr.py).         *)
(* The path encoder -> PCM -> decoder of one channel is the byte FIFO      *)
(* ax_wire[ch]; the modem may garble a byte of it (AxGarble).              *)
(***************************************************************************)
MaxNch == 2

MaxB == 3

\* bytes per channel of one read of standard input; stands for 32767 - 4
TxReadPerCh == 1

\* zero bytes of the priming pad; stands for the 64 of axt.py
PadZeros == 1

\* zero bytes written before the encoder inputs are closed; stands for 128
TailZeros == 4

\* most bytes one read of a decoder's output returns; stands for 256
MaxRd == 2

AxMagic == 51934

\* the inputs: n distinct bytes (a lost, repeated or moved byte shows), and
\* n bytes taken in turn from the values the framing itself uses
AxNasty == <<0, 202, 222, 255>>

AxPlainInputs == {[i \in 1 .. n |-> i] : n \in 0 .. MaxB}

AxInputs ==
    AxPlainInputs \cup
    {[i \in 1 .. n |-> AxNasty[((i + n) % 4) + 1]] : n \in 1 .. MaxB}

GarbleBytes == {7}

Zeros(n) == [i \in 1 .. n |-> 0]

IsPrefix(s, t) == Len(s) <= Len(t) /\ s = SubSeq(t, 1, Len(s))

RECURSIVE SeqSum(_)
SeqSum(s) == IF s = <<>> THEN 0 ELSE s[1] + SeqSum(Tail(s))

\* buf[n :: step] for a 0-based offset n
Stride(buf, n, step) ==
    [i \in 1 .. ((Len(buf) - n + step - 1) \div step) |-> buf[n + 1 + (i - 1) * step]]

\* struct.pack(">HH", magic, size)
PackHH(magic, size) ==
    <<(magic \div 256) % 256, magic % 256, (size \div 256) % 256, size % 256>>

\* struct.unpack(">HH", buf[:4])
UnpackHH(buf) == [magic |-> buf[1] * 256 + buf[2], sz |-> buf[3] * 256 + buf[4]]

\* one buffer for each channel, prefixed with magic and chunklen
AxtFrames(buf, nch) ==
    [n \in 1 .. nch |->
        LET b == Stride(buf, n - 1, nch) IN PackHH(AxMagic, Len(b)) \o b]

\* mutant: the remainder is dropped instead of carried to the next iteration
AxtCarryDrop(buf, nch) == <<>>

\* rem = buf[-n:] with n = len(buf) % nch
AxtCarry(buf, nch) == Drop(buf, Len(buf) - (Len(buf) % nch))

AxtWrite(frames) == [ch \in 1 .. ax_nch |-> ax_wire[ch] \o frames[ch]]

\* main loop of axt A.run, a read that returned k > 0 bytes
AxtRead(k) ==
    /\ ax_tpc = "run"
    /\ k \in 1 .. Min(TxReadPerCh * ax_nch, Len(ax_in))
    /\ LET buf0 == ax_rem \o Take(ax_in, k)
           n    == Len(buf0) % ax_nch
           buf  == Take(buf0, Len(buf0) - n)
       IN  /\ ax_rem' = AxtCarry(buf0, ax_nch)
           /\ ax_wire' = AxtWrite(AxtFrames(buf, ax_nch))
    /\ ax_in' = Drop(ax_in, k)
    /\ UNCHANGED <<ax_nch, ax_B, ax_tpc, ax_pad, ax_dec, ax_out, ax_emitted,
                   ax_exit, ax_emit, ax_err, ax_rd, ax_run, notAx>>

\* main loop of axt A.run at end of input with a remainder: final iteration
AxtFinal ==
    /\ ax_tpc = "run"
    /\ ax_in = <<>>
    /\ ax_rem # <<>>
    /\ ax_wire' = AxtWrite(AxtFrames(ax_rem, ax_nch))
    /\ ax_rem' = <<>>
    /\ UNCHANGED <<ax_nch, ax_B, ax_in, ax_tpc, ax_pad, ax_dec, ax_out,
                   ax_emitted, ax_exit, ax_emit, ax_err, ax_rd, ax_run, notAx>>

\* axt A.run leaves the loop, writes the zero tail and closes the encoders
AxtClose ==
    /\ ax_tpc = "run"
    /\ ax_in = <<>>
    /\ ax_rem = <<>>
    /\ ax_wire' = [ch \in 1 .. ax_nch |-> ax_wire[ch] \o Zeros(TailZeros)]
    /\ ax_tpc' = "closed"
    /\ UNCHANGED <<ax_nch, ax_B, ax_in, ax_rem, ax_pad, ax_dec, ax_out,
                   ax_emitted, ax_exit, ax_emit, ax_err, ax_rd, ax_run, notAx>>

\* the modem garbles the next byte of one channel (at most once)
AxGarble(ch, b) ==
    /\ ax_exit = 0
    /\ ~ax_err
    /\ ch \in 1 .. ax_nch
    /\ ax_wire[ch] # <<>>
    /\ b # ax_wire[ch][1]
    /\ ax_wire' = [ax_wire EXCEPT ![ch][1] = b]
    /\ ax_err' = TRUE
    /\ UNCHANGED <<ax_nch, ax_B, ax_in, ax_rem, ax_tpc, ax_pad, ax_dec, ax_out,
                   ax_emitted, ax_exit, ax_emit, ax_rd, ax_run, notAx>>

\* buf.lstrip(b"\x00")
RECURSIVE LStripZero(_)
LStripZero(buf) ==
    IF buf # <<>> /\ buf[1] = 0 THEN LStripZero(Tail(buf)) ELSE buf

\* a reader that leaves the 0xff of the priming pad in the data
RdChunkKeepSentinel(padding, buf) ==
    IF padding
    THEN IF LStripZero(buf) # <<>> /\ LStripZero(buf)[1] = 255
         THEN [pad |-> FALSE, add |-> LStripZero(buf)]
         ELSE [pad |-> TRUE, add |-> <<>>]
    ELSE [pad |-> FALSE, add |-> buf]

\* the body of the loop of axr A.rd for the read buf: the padding flag after
\* it and the bytes added to self.dec[ch]
RdChunk(padding, buf) ==
    IF padding
    THEN IF LStripZero(buf) # <<>> /\ LStripZero(buf)[1] = 255
         THEN [pad |-> FALSE, add |-> Tail(LStripZero(buf))]
         ELSE [pad |-> TRUE, add |-> <<>>]
    ELSE [pad |-> FALSE, add |-> buf]

\* one pass of the loop of axr A.rd on a read of k bytes
AxrRd(ch, k) ==
    /\ ax_exit = 0
    /\ ch \in 1 .. ax_nch
    /\ k \in 1 .. Min(MaxRd, Len(ax_wire[ch]))
    /\ ax_wire' = [ax_wire EXCEPT ![ch] = Drop(@, k)]
    /\ \E r \in {RdChunk(ax_pad[ch], Take(ax_wire[ch], k))} :
          /\ ax_pad' = [ax_pad EXCEPT ![ch] = r.pad]
          /\ ax_dec' = [ax_dec EXCEPT ![ch] = @ \o r.add]
    /\ ax_emit' = IF ax_dec' = ax_dec THEN ax_emit ELSE "none"
    /\ UNCHANGED <<ax_nch, ax_B, ax_in, ax_rem, ax_tpc, ax_out, ax_emitted,
                   ax_exit, ax_err, ax_rd, ax_run, notAx>>

\* header checks that report one byte less than the header declares
RECURSIVE AxrScanShortFrame(_, _, _)
AxrScanShortFrame(dec, n, szs) ==
    IF n > Len(dec)
    THEN [res |-> "ok", szs |-> szs, ch |-> 0]
    ELSE IF Len(dec[n]) < 4
         THEN [res |-> "wait", szs |-> szs, ch |-> n]
         ELSE IF UnpackHH(dec[n]).magic # AxMagic
              THEN [res |-> IF UnpackHH(dec[n]).sz = 0 THEN "wait" ELSE "fatal",
                    szs |-> szs, ch |-> n]
              ELSE IF Len(dec[n]) < UnpackHH(dec[n]).sz + 4
                   THEN [res |-> "wait", szs |-> szs, ch |-> n]
                   ELSE AxrScanShortFrame(dec, n + 1,
                            Append(szs, Max(UnpackHH(dec[n]).sz - 1, 0)))

\* the header checks of axr A.emit over channels n, n+1, ...;
\* res is "wait" (return False), "fatal" (sys.exit(1)) or "ok"
RECURSIVE AxrScan(_, _, _)
AxrScan(dec, n, szs) ==
    IF n > Len(dec)
    THEN [res |-> "ok", szs |-> szs, ch |-> 0]
    ELSE LET buf == dec[n]
         IN  IF Len(buf) < 4
             THEN [res |-> "wait", szs |-> szs, ch |-> n]
             ELSE LET h == UnpackHH(buf)
                  IN  IF h.magic # AxMagic
                      THEN IF h.sz = 0
                           THEN [res |-> "wait", szs |-> szs, ch |-> n]
                           ELSE [res |-> "fatal", szs |-> szs, ch |-> n]
                      ELSE IF Len(buf) < h.sz + 4
                           THEN [res |-> "wait", szs |-> szs, ch |-> n]
                           ELSE AxrScan(dec, n + 1, Append(szs, h.sz))

\* bufs[n] += b"\x00" * 4 for every channel shorter than the one before it
RECURSIVE AxrPadShort(_, _)
AxrPadShort(bufs, n) ==
    IF n > Len(bufs) THEN bufs
    ELSE IF Len(bufs[n]) < Len(bufs[n - 1])
         THEN AxrPadShort([bufs EXCEPT ![n] = @ \o Zeros(4)], n + 1)
         ELSE AxrPadShort(bufs, n + 1)

RECURSIVE MinLen(_)
MinLen(bufs) ==
    IF Len(bufs) = 1 THEN Len(bufs[1])
    ELSE Min(Len(bufs[1]), MinLen(Tail(bufs)))

\* [y for x in zip(*bufs) for y in x]
Zip(bufs) ==
    LET nch == Len(bufs)
    IN  [i \in 1 .. (MinLen(bufs) * nch) |->
            bufs[((i - 1) % nch) + 1][((i - 1) \div nch) + 1]]

\* mutant: the interleaved bytes are written without the cut to sum(szs)
AxrMuxNoCut(bufs, szs) == Zip(AxrPadShort(bufs, 2))

\* the bytes axr A.emit writes for the extracted payloads
AxrMux(bufs, szs) == Take(Zip(AxrPadShort(bufs, 2)), SeqSum(szs))

\* axr A.emit
AxrEmit ==
    /\ ax_tpc # "idle"
    /\ ax_exit = 0
    /\ LET r == AxrScan(ax_dec, 1, <<>>)
       IN  CASE r.res = "wait" ->
                    /\ ax_emit' = "wait"
                    /\ UNCHANGED <<ax_dec, ax_out, ax_emitted, ax_exit>>
             [] r.res = "fatal" ->
                    /\ ax_exit' = 1
                    /\ ax_emit' = "exit"
                    /\ UNCHANGED <<ax_dec, ax_out, ax_emitted>>
             [] r.res = "ok" ->
                    LET bufs == [n \in 1 .. ax_nch |->
                                    SubSeq(ax_dec[n], 5, r.szs[n] + 4)]
                    IN  /\ ax_dec' = [n \in 1 .. ax_nch |->
                                         Drop(ax_dec[n], r.szs[n] + 4)]
                        /\ IF bufs[1] = <<>>
                           THEN /\ ax_emit' = "empty"
                                /\ UNCHANGED <<ax_out, ax_emitted>>
                           ELSE /\ ax_out' = ax_out \o AxrMux(bufs, r.szs)
                                /\ ax_emitted' = ax_emitted + Len(bufs[1])
                                /\ ax_emit' = "written"
                        /\ UNCHANGED ax_exit
    /\ UNCHANGED <<ax_nch, ax_B, ax_in, ax_rem, ax_tpc, ax_wire, ax_pad,
                   ax_err, ax_rd, ax_run, notAx>>

\* both tools after the start-up loops of A.run: the pad is on its way
InitAxOn(inputs) ==
    /\ ax_nch \in 1 .. MaxNch
    /\ ax_B \in inputs
    /\ ax_in = ax_B
    /\ ax_rem = <<>>
    /\ ax_tpc = "run"
    /\ ax_wire = [ch \in 1 .. ax_nch |-> Append(Zeros(PadZeros), 255)]
    /\ ax_pad = [ch \in 1 .. ax_nch |-> TRUE]
    /\ ax_dec = [ch \in 1 .. ax_nch |-> <<>>]
    /\ ax_out = <<>>
    /\ ax_emitted = 0
    /\ ax_exit = 0
    /\ ax_emit = "none"
    /\ ax_err = FALSE
    /\ ax_rd = IdleRd
    /\ ax_run = IdleRun
    /\ IdleVle
    /\ IdleVx
    /\ IdleKb
    /\ IdleKx
    /\ IdleHx

InitAx == InitAxOn(AxInputs)

InitAxErr == InitAxOn(AxPlainInputs)

NextAx ==
    \/ \E k \in 1 .. (TxReadPerCh * MaxNch) : AxtRead(k)
    \/ AxtFinal
    \/ AxtClose
    \/ \E ch \in 1 .. MaxNch, k \in 1 .. MaxRd : AxrRd(ch, k)
    \/ AxrEmit

\* a channel without bit errors
SpecAx == InitAx /\ [][NextAx]_vars

NextAxErr ==
    \/ NextAx
    \/ \E ch \in 1 .. MaxNch, b \in GarbleBytes : AxGarble(ch, b)

\* a channel that may garble one byte
SpecAxErr == InitAxErr /\ [][NextAxErr]_vars

\* nothing is left to send, to deliver or to emit
AxDrained ==
    /\ ax_tpc = "closed"
    /\ \A ch \in 1 .. ax_nch : ax_wire[ch] = <<>>
    /\ AxrScan(ax_dec, 1, <<>>).res # "ok"

\* C1: without bit errors the receiver's output is the transmitter's input:
\* it is always a prefix of B, the receiver never stops with a desync, and
\* once every frame has been delivered and emitted the output is exactly B
C1_AudioRoundTrip ==
    (ax_tpc # "idle" /\ ~ax_err) =>
        /\ IsPrefix(ax_out, ax_B)
        /\ ax_exit = 0
        /\ AxDrained => ax_out = ax_B

\* a whole input whose length is not a multiple of N has been written out
C1_Witness ==
    /\ ~ax_err
    /\ AxDrained
    /\ ax_nch = 2
    /\ Len(ax_B) = 3
    /\ ax_out = ax_B

\* the channel whose header made emit stop, when that header has four bytes
\* and a magic other than 0xCADE; 0 when there is none
AxrBadMagicCh ==
    LET r == AxrScan(ax_dec, 1, <<>>)
    IN  IF /\ r.ch # 0
           /\ Len(ax_dec[r.ch]) >= 4
           /\ UnpackHH(ax_dec[r.ch]).magic # AxMagic
        THEN r.ch ELSE 0

AxrAllZeroHeader(ch) ==
    UnpackHH(ax_dec[ch]).magic = 0 /\ UnpackHH(ax_dec[ch]).sz = 0

\* C10: a header whose magic is not 0xCADE makes emit end the process with exit
\* code 1, unless the four bytes are all zero, and then emit waits
C10_DesyncIsFatal ==
    (ax_emit \in {"wait", "exit"} /\ AxrBadMagicCh # 0) =>
        IF AxrAllZeroHeader(AxrBadMagicCh)
        THEN ax_emit = "wait" /\ ax_exit = 0
        ELSE ax_emit = "exit" /\ ax_exit = 1

\* what the code does: the size alone decides between waiting and exiting
C10_SizeDecides ==
    (ax_emit \in {"wait", "exit"} /\ AxrBadMagicCh # 0) =>
        IF UnpackHH(ax_dec[AxrBadMagicCh]).sz = 0
        THEN ax_emit = "wait" /\ ax_exit = 0
        ELSE ax_emit = "exit" /\ ax_exit = 1

(***************************************************************************)
(* Dotmatrix transmitter (vx/vxt.py)                                       *)
(***************************************************************************)
\* bin(x)[2:].zfill(8), most significant bit first
ByteBits(x) ==
    <<(x \div 128) % 2, (x \div 64) % 2, (x \div 32) % 2, (x \div 16) % 2,
      (x \div 8) % 2, (x \div 4) % 2, (x \div 2) % 2, x % 2>>

\* bstr2bits / bstr2bitstr
bstr2bits(buf) ==
    [i \in 1 .. (8 * Len(buf)) |-> ByteBits(buf[((i - 1) \div 8) + 1])[((i - 1) % 8) + 1]]

\* int(bits[x : x + 8], 2) for the 0-based offset x
BitsByte(bits, x) ==
    bits[x + 1] * 128 + bits[x + 2] * 64 + bits[x + 3] * 32 + bits[x + 4] * 16 +
    bits[x + 5] * 8 + bits[x + 6] * 4 + bits[x + 7] * 2 + bits[x + 8]

\* bits2bstr: whole bytes only, the bits after the last whole byte are left out
bits2bstr(bits) == [i \in 1 .. (Len(bits) \div 8) |-> BitsByte(bits, 8 * (i - 1))]

\* stands for hashlib.sha512(buf).digest()[:n]: n bytes that depend on every
\* item of buf and on its position
RECURSIVE HashRange(_, _, _)
HashRange(buf, lo, hi) ==
    IF lo > hi THEN 0
    ELSE IF lo = hi THEN ((buf[lo] + 1) * (((lo * 7919) % 65521) + 1)) % 65521
    ELSE LET mid == (lo + hi) \div 2
         IN  (HashRange(buf, lo, mid) + HashRange(buf, mid + 1, hi)) % 65521

Digest(buf, n) ==
    LET h == (HashRange(buf, 1, Len(buf)) + Len(buf)) % 65521
    IN  [i \in 1 .. n |-> IF i % 2 = 1 THEN (h \div 256) % 256 ELSE h % 256]

\* the path clean-up of gen_header
RECURSIVE StripSlashes(_)
StripSlashes(rfn) ==
    IF rfn # <<>> /\ rfn[1] = 47 THEN StripSlashes(Tail(rfn)) ELSE rfn

StoredName(fn) ==
    LET nodrive == IF Len(fn) >= 3 /\ fn[2] = 58 /\ fn[3] = 92 THEN Drop(fn, 3) ELSE fn
        fwd     == [i \in 1 .. Len(nodrive) |-> IF nodrive[i] = 92 THEN 47 ELSE nodrive[i]]
    IN  StripSlashes(fwd)

\* Vxt.gen_header for the file record fo
gen_header(fo, fake_csum) ==
    LET csum == IF fake_csum THEN [i \in 1 .. 16 |-> 120] ELSE Digest(fo.data, 16)
        rfn  == StoredName(fo.fn)
    IN  enc_vle(Wide(fo.sz)) \o enc_vle(Wide(fo.ts)) \o csum
            \o enc_vle(Wide(Len(rfn))) \o rfn

\* self.figs of Vxt.__init__: per file the header dict, then the payload dict;
\* two dicts are the same figment to list.index when their items are equal
FigsOf(files) ==
    [j \in 1 .. (2 * Len(files)) |->
        LET fo == files[(j + 1) \div 2]
        IN  IF j % 2 = 1
            THEN [pl |-> FALSE, len |-> Len(gen_header(fo, TRUE)),
                  fn |-> fo.fn, sz |-> fo.sz, ts |-> fo.ts]
            ELSE [pl |-> TRUE, len |-> fo.sz, fn |-> <<>>, sz |-> -1, ts |-> -1]]

RECURSIVE SumSz(_)
SumSz(files) == IF files = <<>> THEN 0 ELSE files[1].sz + SumSz(Tail(files))

\* self.header0
Header0(files) ==
    enc_vle(Wide(1)) \o enc_vle(Wide(Len(files))) \o enc_vle(Wide(SumSz(files)))

\* self.figs.index(fig) for the figment object at position fi (1-based):
\* the first position that holds an equal dict
FigsIndex(figs, fi) == CHOOSE j \in 1 .. fi : figs[j] = figs[fi] /\ \A k \in 1 .. (j - 1) : figs[k] # figs[fi]

\* the while loop of get_frame_info
RECURSIVE FrameFill(_, _, _, _, _, _)
FrameFill(figs, nbits, bits_spent, fig_idx, fig_bit, displayed) ==
    IF ~(bits_spent < nbits /\ fig_idx <= Len(figs))
    THEN displayed
    ELSE LET bits_left == nbits - bits_spent
             fig == figs[fig_idx]
         IN  IF fig_bit >= fig.len * 8
             THEN FrameFill(figs, nbits, bits_spent, fig_idx + 1, 0, displayed)
             ELSE LET bit1 == fig_bit
                      bit2 == Min(bit1 + bits_left, fig.len * 8)
                  IN  FrameFill(figs, nbits, bits_spent + (bit2 - bit1), fig_idx, bit2,
                                Append(displayed, [fi |-> fig_idx, bit1 |-> bit1,
                                                   bit2 |-> bit2, ofs |-> bits_spent]))

\* get_frame_info(nframe) when frames 0 .. nframe-1 are memoized in frames;
\* <<>> is the None of the end of the stream
FrameInfo(files, nbits, frames, nframe) ==
    LET figs   == FigsOf(files)
        vframe == enc_vle(Wide(nframe))
        spent0 == (4 + Len(vframe)) * 8
        pframe == frames[nframe]
        last   == pframe[Len(pframe)]
    IN  IF nframe = 0
        THEN FrameFill(figs, nbits, spent0 + Len(Header0(files)) * 8, 1, 0, <<>>)
        ELSE FrameFill(figs, nbits, spent0, FigsIndex(figs, last.fi), last.bit2, <<>>)

\* the bits gen_frame takes from one chunk
ChunkBits(files, chunk) ==
    LET figs == FigsOf(files)
        fig  == figs[chunk.fi]
    IN  IF ~fig.pl
        THEN SubSeq(bstr2bits(gen_header(files[(chunk.fi + 1) \div 2], FALSE)),
                    chunk.bit1 + 1, chunk.bit2)
        ELSE LET byte1   == chunk.bit1 \div 8
                 trunc1  == chunk.bit1 % 8
                 byte2   == Min((chunk.bit2 + 7) \div 8, fig.len)
                 metaidx == FigsIndex(figs, chunk.fi) - 1
                 data    == files[(metaidx + 1) \div 2].data
                 buf     == SubSeq(data, byte1 + 1, byte2)
             IN  Take(Drop(bstr2bits(buf), trunc1), chunk.bit2 - chunk.bit1)

RECURSIVE ChunksBits(_, _)
ChunksBits(files, inf) ==
    IF inf = <<>> THEN <<>>
    ELSE ChunkBits(files, inf[1]) \o ChunksBits(files, Tail(inf))

\* Vxt.gen_frame for the frame info inf of frame nframe
gen_frame(files, nbits, nframe, inf) ==
    Only({ Only({ bstr2bits(Digest(bits, 4)) \o bits
                  : bits \in {body \o Zeros(nbits - (Len(body) + 4 * 8))} })
           : body \in {bstr2bits(enc_vle(Wide(nframe)))
                           \o (IF nframe = 0 THEN bstr2bits(Header0(files)) ELSE <<>>)
                           \o ChunksBits(files, inf)} })

(***************************************************************************)
(* Dotmatrix receiver (vx/vxr.py): the Assembler.                          *)
(* An Assembler is a record; an optional field is <<>> for None and <<v>>  *)
(* for the value v; exc names the exception that ended the process.        *)
(***************************************************************************)
Truthy(o) == o # <<>> /\ o[1] # 0

\* the integer of a decoded VLE, -1 when dec_vle gave up
VleInt(val) == IF val = <<-1>> THEN -1 ELSE Narrow(val)

\* b"inc/"
IncDir == <<105, 110, 99, 47>>

\* the components of a path: path.split(b"/")
RECURSIVE SplitPath(_, _)
SplitPath(path, cur) ==
    IF path = <<>> THEN <<cur>>
    ELSE IF path[1] = 47 THEN <<cur>> \o SplitPath(Tail(path), <<>>)
    ELSE SplitPath(Tail(path), Append(cur, path[1]))

\* where the operating system finds the components comps, walking from the
\* working directory: up, the levels above it; at, the names below that
RECURSIVE WalkPath(_, _)
WalkPath(comps, r) ==
    IF comps = <<>> THEN r
    ELSE IF comps[1] = <<>> \/ comps[1] = <<46>> THEN WalkPath(Tail(comps), r)
    ELSE IF comps[1] = <<46, 46>>
    THEN WalkPath(Tail(comps),
                  IF r.at = <<>> THEN [r EXCEPT !.up = @ + 1]
                  ELSE [r EXCEPT !.at = SubSeq(@, 1, Len(@) - 1)])
    ELSE WalkPath(Tail(comps), [r EXCEPT !.at = Append(@, comps[1])])

ResolvePath(path) == WalkPath(SplitPath(path, <<>>), [up |-> 0, at |-> <<>>])

\* open(fn, "wb") after os.makedirs(fn.rsplit(b"/", 1)[0]) finds a directory:
\* fn names the working directory, one above it, or one that makedirs made
IsDirPath(fn) ==
    \E r \in {ResolvePath(fn)} :
        \/ r.at = <<>>
        \/ \E i \in 1 .. (Len(fn) - 1) : fn[i + 1] = 47 /\ ResolvePath(Take(fn, i)) = r

\* Assembler._realign
RECURSIVE Realign(_)
Realign(a) ==
    IF DOMAIN a.frametab = {} \/ a.next_frame \notin DOMAIN a.frametab
    THEN a
    ELSE LET fr   == a.frametab[a.next_frame]
             bits == a.remainder \o bstr2bits(fr.bstr) \o fr.remains
             bstr == bits2bstr(bits)
         IN  Realign([a EXCEPT
                 !.buf = @ \o bstr,
                 !.remainder = Drop(bits, Len(bstr) * 8),
                 !.frametab = [k \in (DOMAIN a.frametab) \ {a.next_frame} |-> a.frametab[k]],
                 !.next_frame = @ + 1])

Raise(a, what) == [a |-> [a EXCEPT !.exc = what], ret |-> FALSE]

Return(a, ret) == [a |-> a, ret |-> ret]

\* a stream header read without the version test
ProcessStreamHeaderAnyVersion(a) ==
    LET r1  == dec_vle_it(a.buf, 0)
        r2  == dec_vle_it(a.buf, r1.used)
        r3  == dec_vle_it(a.buf, r1.used + r2.used)
        pos == r1.ate + r2.ate + r3.ate
    IN  Return([a EXCEPT !.files_total = <<VleInt(r2.val)>>,
                         !.bytes_total = <<VleInt(r3.val)>>,
                         !.buf = Drop(@, pos),
                         !.fig_no = @ + 1], TRUE)

\* figment type 0: stream header
ProcessStreamHeader(a) ==
    LET r1  == dec_vle_it(a.buf, 0)
        r2  == dec_vle_it(a.buf, r1.used)
        r3  == dec_vle_it(a.buf, r1.used + r2.used)
        pos == r1.ate + r2.ate + r3.ate
    IN  IF VleInt(r1.val) # 1
        THEN Raise(a, "this vxr supports version 1 only")
        ELSE Return([a EXCEPT !.files_total = <<VleInt(r2.val)>>,
                              !.bytes_total = <<VleInt(r3.val)>>,
                              !.buf = Drop(@, pos),
                              !.fig_no = @ + 1], TRUE)

\* a file header read without the test that the name is whole
ProcessFileHeaderShortName(a) ==
    Only({ Only({ Only({
        LET p1     == r1.ate
            p2     == p1 + r2.ate
            p3     == p2 + 16
            p4     == p3 + r3.ate
            fn_len == VleInt(r3.val)
            pos    == p4 + fn_len
            fn     == IncDir \o SubSeq(a.buf, p4 + 1, Min(pos, Len(a.buf)))
        IN  IF r1.ate = 0 THEN Return(a, FALSE)
            ELSE IF r2.ate = 0 THEN Return(a, FALSE)
            ELSE IF Len(a.buf) < p3 THEN Return(a, FALSE)
            ELSE IF r3.ate = 0 THEN Return(a, FALSE)
            ELSE IF IsDirPath(fn)
            THEN Raise([a EXCEPT !.buf = Drop(@, Min(pos, Len(a.buf)))], "IsADirectoryError")
            ELSE Return([a EXCEPT
                     !.buf = Drop(@, Min(pos, Len(a.buf))),
                     !.payload = <<[fn |-> fn, sz |-> VleInt(r1.val),
                                    ts |-> VleInt(r2.val),
                                    cksum |-> SubSeq(a.buf, p2 + 1, p3),
                                    fo |-> "open"]>>,
                     !.fs = (fn :> [data |-> <<>>, mtime |-> <<>>]) @@ @,
                     !.fds = @ + 1,
                     !.fig_no = @ + 1], TRUE)
        : r3 \in {dec_vle_it(a.buf, r1.ate + r2.ate + 16)} })
        : r2 \in {dec_vle_it(a.buf, r1.ate)} })
        : r1 \in {dec_vle_it(a.buf, 0)} })

\* figment type 1: file header
ProcessFileHeader(a) ==
    Only({ Only({ Only({
        LET p1     == r1.ate
            p2     == p1 + r2.ate
            p3     == p2 + 16
            p4     == p3 + r3.ate
            fn_len == VleInt(r3.val)
            pos    == p4 + fn_len
            fn     == IncDir \o SubSeq(a.buf, p4 + 1, pos)
        IN  IF r1.ate = 0 THEN Return(a, FALSE)
            ELSE IF r2.ate = 0 THEN Return(a, FALSE)
            ELSE IF Len(a.buf) < p3 THEN Return(a, FALSE)
            ELSE IF r3.ate = 0 THEN Return(a, FALSE)
            ELSE IF Len(a.buf) < pos THEN Return(a, FALSE)
            ELSE IF IsDirPath(fn)
            THEN Raise([a EXCEPT !.buf = Drop(@, pos)], "IsADirectoryError")
            ELSE Return([a EXCEPT
                     !.buf = Drop(@, pos),
                     !.payload = <<[fn |-> fn, sz |-> VleInt(r1.val),
                                    ts |-> VleInt(r2.val),
                                    cksum |-> SubSeq(a.buf, p2 + 1, p3),
                                    fo |-> "open"]>>,
                     !.fs = (fn :> [data |-> <<>>, mtime |-> <<>>]) @@ @,
                     !.fds = @ + 1,
                     !.fig_no = @ + 1], TRUE)
        : r3 \in {dec_vle_it(a.buf, r1.ate + r2.ate + 16)} })
        : r2 \in {dec_vle_it(a.buf, r1.ate)} })
        : r1 \in {dec_vle_it(a.buf, 0)} })

\* self.payload["fo"].close(): closing a closed file object does nothing
Close(a) ==
    IF a.payload[1].fo = "open"
    THEN [a EXCEPT !.payload[1].fo = "closed", !.fds = @ - 1]
    ELSE a

\* a payload figment that counts the file before it verifies it
ProcessPayloadCountFirst(a) ==
    LET p       == a.payload[1]
        tell    == Len(a.fs[p.fn].data)
        remains == p.sz - tell
        written == IF remains <= 0 THEN 0 ELSE Min(remains, Len(a.buf))
        a1      == [a EXCEPT !.fs[p.fn].data = @ \o Take(a.buf, written),
                             !.buf = Drop(@, written),
                             !.bytes_done = @ + written]
        a2      == Close(a1)
    IN  IF Len(a1.fs[p.fn].data) >= p.sz
        THEN IF p.cksum # Digest(a1.fs[p.fn].data, 16)
             THEN Raise([a2 EXCEPT !.files_done = @ + 1], "file corrupted")
             ELSE Return([a2 EXCEPT !.fs[p.fn].mtime = <<p.ts>>,
                                    !.files_done = @ + 1,
                                    !.fig_no = @ + 1], TRUE)
        ELSE Return(a1, FALSE)

\* figment type 2: payload
ProcessPayload(a) ==
    LET p       == a.payload[1]
        tell    == Len(a.fs[p.fn].data)
        remains == p.sz - tell
        written == IF remains <= 0 THEN 0 ELSE Min(remains, Len(a.buf))
        a1      == [a EXCEPT !.fs[p.fn].data = @ \o Take(a.buf, written),
                             !.buf = Drop(@, written),
                             !.bytes_done = @ + written]
        a2      == Close(a1)
    IN  IF Len(a1.fs[p.fn].data) >= p.sz
        THEN IF p.cksum # Digest(a1.fs[p.fn].data, 16)
             THEN Raise(a2, "file corrupted")
             ELSE Return([a2 EXCEPT !.fs[p.fn].mtime = <<p.ts>>,
                                    !.files_done = @ + 1,
                                    !.fig_no = @ + 1], TRUE)
        ELSE Return(a1, FALSE)

\* Assembler._process
Process(a0) ==
    Only({ IF a.fig_no = 0 THEN ProcessStreamHeader(a)
           ELSE IF ~Truthy(a.files_total) THEN Raise(a, "awawa")
           ELSE IF a.fig_no % 2 = 1 THEN ProcessFileHeader(a)
           ELSE ProcessPayload(a)
           : a \in {Realign(a0)} })

\* the while loop of Assembler.put
RECURSIVE PutLoop(_)
PutLoop(a) ==
    IF Truthy(a.bytes_total) /\ a.bytes_done >= a.bytes_total[1]
    THEN Return(a, TRUE)
    ELSE Only({ IF r.a.exc # "" \/ ~r.ret THEN Return(r.a, FALSE) ELSE PutLoop(r.a)
                : r \in {Process(a)} })

\* Assembler.put(nframe, data)
Put(a, nframe, data) ==
    IF nframe < a.next_frame
    THEN Return(a, FALSE)
    ELSE LET bstr == bits2bstr(data)
         IN  PutLoop([a EXCEPT !.frametab =
                 (nframe :> [bstr |-> bstr, remains |-> Drop(data, Len(bstr) * 8)]) @@ @])

(***************************************************************************)
(* Dotmatrix: the screen between the two tools.  A cell of the terminal is *)
(* "#" (full block) or " "; the transmitter runs with -nh -nf -nb, one bit *)
(* per cell, and the receiver samples the cells its calibration found.     *)
(***************************************************************************)
\* what termsize() may answer; the receiver's calibration wants a fence of
\* at least 12 x 8 cells inside the screen
TermSizes == {<<14, 10>>, <<15, 10>>}

MaxFiles == 2

MaxFileSz == 2

\* frames past this index are not requested
MaxFrames == 7

\* keys the operator types at the transmitter
MaxOps == 1

\* how far ahead of the expected frame a frame may arrive at the Assembler
MaxAhead == 1

\* files on the command line of a run that goes through the screen
MaxScrFiles == 1

\* the cell of a capture that noise may invert: a checksum bit, a data bit
FlipAt == {1, 41}

\* st_mtime of every file
FileTs == 5

Rep(c, n) == [i \in 1 .. n |-> c]

RECURSIVE Concat(_)
Concat(rows) == IF rows = <<>> THEN <<>> ELSE rows[1] \o Concat(Tail(rows))

\* s[a : b] of Python for 0 <= a
Slice(s, a, b) == IF a >= Min(b, Len(s)) THEN <<>> ELSE SubSeq(s, a + 1, Min(b, Len(s)))

\* the files a command line of n names gives: the i-th file is named a, b, ..
\* and is filled with A, B, ..
FileOf(i, sz) == [fn |-> <<96 + i>>, sz |-> sz, ts |-> FileTs, data |-> Rep(64 + i, sz)]

FileSetsOf(n) ==
    {[i \in 1 .. n |-> FileOf(i, szs[i])] : szs \in [1 .. n -> 0 .. MaxFileSz]}

FileSets == UNION {FileSetsOf(n) : n \in 1 .. MaxFiles}

ScrFileSets == UNION {FileSetsOf(n) : n \in 1 .. MaxScrFiles}

\* the terminal of a run that goes through the screen
ScrTermSizes == {<<14, 10>>}

\* self.nbits (no half blocks)
NBits(term) == term[1] * term[2] - 1

\* calibration_boxes(w, h, False) as draw puts it on the terminal
calibration_boxes(w, h) ==
    LET box  == <<" ", "#", " ", " ", " ", "#">>
        fill == <<" ", "#", "#", "#", "#", "#">>
        alt  == [i \in 1 .. Max(w - 13, 0) |-> IF i % 2 = 1 THEN " " ELSE "#"]
        mid  == [n \in 1 .. Max(h - 9, 0) |->
                    IF (n - 1) % 2 = 0
                    THEN <<" ", "#">> \o Rep(" ", w - 4) \o <<"#", " ">>
                    ELSE box \o Rep(" ", w - 8) \o <<"#", " ">>]
    IN  Rep(" ", w)
        \o (<<" ">> \o Rep("#", w - 2) \o <<" ">>)
        \o (box \o Rep(" ", Max(w - 13, 0)) \o box \o <<" ">>)
        \o (box \o Rep(" ", Max(w - 13, 0)) \o box \o <<" ">>)
        \o (box \o Rep(" ", Max(w - 13, 0)) \o box \o <<" ">>)
        \o (fill \o alt \o fill \o <<" ">>)
        \o Concat(mid)
        \o (<<" ", "#">> \o Rep(" ", w - 4) \o <<"#", " ">>)
        \o (<<" ">> \o Rep("#", w - 2) \o <<" ">>)
        \o Rep(" ", w - 1)

\* get_frame_info with its cache: frames is self.frames before the call;
\* the answer has self.frames after it, the frame info (<<>> for None) and
\* err when self.frames[nframe - 1] does not exist
RECURSIVE get_frame_info(_, _, _, _)
get_frame_info(files, nbits, frames, nframe) ==
    LET r0 == IF nframe > 0 /\ nframe > Len(frames) - 1
              THEN get_frame_info(files, nbits, frames, nframe - 1)
              ELSE [frames |-> frames, inf |-> <<>>, err |-> FALSE]
        f1 == r0.frames
    IN  IF r0.err THEN r0
        ELSE IF Len(f1) > nframe
        THEN [frames |-> f1, inf |-> f1[nframe + 1], err |-> FALSE]
        ELSE IF nframe > 0 /\ Len(f1) < nframe
        THEN [frames |-> f1, inf |-> <<>>, err |-> TRUE]
        ELSE Only({ [frames |-> IF d = <<>> THEN f1 ELSE Append(f1, d),
                     inf |-> d, err |-> FALSE]
                    : d \in {FrameInfo(files, nbits, f1, nframe)} })

\* Vxt.rasterize(frameno): the cells of the frame, <<>> for ""
rasterize(files, term, frames, frameno) ==
    Only({
        IF r.err THEN [frames |-> r.frames, scr |-> <<>>, err |-> TRUE]
        ELSE IF r.inf = <<>> THEN [frames |-> r.frames, scr |-> <<>>, err |-> FALSE]
        ELSE [frames |-> r.frames, err |-> FALSE,
              scr |-> Only({
                  LET w     == term[1]
                      h     == term[2]
                      fullw == w * (h - 1)
                      rows1 == [i \in 1 .. (h - 1) |->
                                  Slice(bits, (i - 1) * w, (i - 1) * w + w)]
                      rows2 == [i \in 1 .. 3 |->
                                  Slice(bits, fullw + (i - 1) * (w - 1),
                                        fullw + (i - 1) * (w - 1) + w - 1)]
                  IN  Only({ [i \in 1 .. Len(cells) |-> IF cells[i] = 1 THEN "#" ELSE " "]
                             : cells \in {Concat(rows1 \o rows2)} })
                  : bits \in {gen_frame(files, NBits(term), frameno, r.inf)} })]
        : r \in {get_frame_info(files, NBits(term), frames, frameno)} })

\* VxMatrix.width with halfs off
MatrixWidth(w, h, ny) == IF ny < h - 1 THEN w ELSE w - 1

\* the bits the decode loop reads off a capture: cell (cx, cy) of the matrix
\* for cy = 0 .. h-1 and cx = 0 .. width(cy)-1
ScanBits(yuv, term) ==
    LET w == term[1]
        h == term[2]
        row(cy) == [cx \in 1 .. MatrixWidth(w, h, cy) |->
                        IF yuv[cy * w + cx] = "#" THEN 1 ELSE 0]
    IN  Concat([cy \in 1 .. h |-> row(cy - 1)])

\* ffmpeg.take_yuv(): the screen, with the cell flip (if any) misread
Capture(scr, flip) ==
    [i \in 1 .. Len(scr) |->
        IF i = flip THEN (IF scr[i] = "#" THEN " " ELSE "#") ELSE scr[i]]

\* the three parts of the bits of a capture as the decode loop cuts them
FrameCksum(bits) == bits2bstr(SubSeq(bits, 1, 32))

FrameNo(bits) == dec_vle(bits2bstr(SubSeq(bits, 33, 96)))

\* a recomputation that leaves the frame number out
FrameCksum2AfterNo(bits) == Digest(Drop(bits, 32 + FrameNo(bits).ate * 8), 4)

FrameCksum2(bits) == Digest(Drop(bits, 32), 4)

FrameData(bits) == Drop(bits, 32 + FrameNo(bits).ate * 8)

(***************************************************************************)
(* Dotmatrix: Vxt.run, one pass of its loop per key                        *)
(***************************************************************************)
VxtCrash ==
    /\ vx_tpc' = "crashed"
    /\ UNCHANGED <<vx_cur, vx_pend, vx_frames>>

\* a loop that keeps the index of a frame past the end of the stream
VxtRunNoRevert(k) ==
    \E cur1 \in {IF k = "a" THEN Max(vx_cur - 1, 0)
                 ELSE IF k = "d" THEN vx_cur + 1 ELSE vx_cur} :
    \E r1 \in {IF vx_pend.n = cur1 \/ cur1 < 0
                THEN [frames |-> vx_frames, scr |-> vx_pend.scr, err |-> FALSE]
                ELSE rasterize(vx_files, vx_term, vx_frames, cur1)} :
    \E r2 \in {IF k = "d" /\ ~r1.err /\ r1.scr # <<>>
                THEN rasterize(vx_files, vx_term, r1.frames, cur1 + 1)
                ELSE r1} :
        /\ vx_tpc = "run"
        /\ k = "d" => vx_cur + 2 < MaxFrames
        /\ IF cur1 < 0
           THEN UNCHANGED <<vx_tpc, vx_cur, vx_pend, vx_frames, vx_scr>>
           ELSE IF r1.err
           THEN VxtCrash /\ UNCHANGED vx_scr
           ELSE IF r1.scr = <<>>
           THEN /\ vx_cur' = cur1
                /\ vx_frames' = r1.frames
                /\ UNCHANGED <<vx_tpc, vx_pend, vx_scr>>
           ELSE /\ vx_scr' = r1.scr
                /\ IF k # "d"
                   THEN /\ vx_cur' = cur1
                        /\ vx_frames' = r1.frames
                        /\ UNCHANGED <<vx_tpc, vx_pend>>
                   ELSE IF r2.err
                   THEN VxtCrash
                   ELSE /\ vx_cur' = cur1
                        /\ vx_frames' = r2.frames
                        /\ vx_pend' = [n |-> cur1 + 1, scr |-> r2.scr]
                        /\ UNCHANGED vx_tpc
        /\ UNCHANGED <<vx_files, vx_term>>

\* the body of the while loop of Vxt.run for the key k: "a", "d" or any
\* other key but ^C and "k" ("x")
VxtRun(k) ==
    \E cur1 \in {IF k = "a" THEN Max(vx_cur - 1, 0)
                 ELSE IF k = "d" THEN vx_cur + 1 ELSE vx_cur} :
    \E r1 \in {IF vx_pend.n = cur1 \/ cur1 < 0
                THEN [frames |-> vx_frames, scr |-> vx_pend.scr, err |-> FALSE]
                ELSE rasterize(vx_files, vx_term, vx_frames, cur1)} :
    \E r2 \in {IF k = "d" /\ ~r1.err /\ r1.scr # <<>>
                THEN rasterize(vx_files, vx_term, r1.frames, cur1 + 1)
                ELSE r1} :
        /\ vx_tpc = "run"
        /\ k = "d" => vx_cur + 2 < MaxFrames
        /\ IF cur1 < 0
           THEN UNCHANGED <<vx_tpc, vx_cur, vx_pend, vx_frames, vx_scr>>
           ELSE IF r1.err
           THEN VxtCrash /\ UNCHANGED vx_scr
           ELSE IF r1.scr = <<>>
           THEN /\ vx_cur' = cur1 - 1
                /\ vx_frames' = r1.frames
                /\ UNCHANGED <<vx_tpc, vx_pend, vx_scr>>
           ELSE /\ vx_scr' = r1.scr
                /\ IF k # "d"
                   THEN /\ vx_cur' = cur1
                        /\ vx_frames' = r1.frames
                        /\ UNCHANGED <<vx_tpc, vx_pend>>
                   ELSE IF r2.err
                   THEN VxtCrash
                   ELSE /\ vx_cur' = cur1
                        /\ vx_frames' = r2.frames
                        /\ vx_pend' = [n |-> cur1 + 1, scr |-> r2.scr]
                        /\ UNCHANGED vx_tpc
        /\ UNCHANGED <<vx_files, vx_term>>

\* getch() returns a 'd' the receiver's switch_frame typed
VxtKeyRx ==
    /\ vx_kq > 0
    /\ vx_kq' = vx_kq - 1
    /\ VxtRun("d")
    /\ UNCHANGED <<vx_ops, vx_asm, vx_cap, vx_rpc, vx_verdict, vx_fed, vx_raw, notVx>>

\* getch() returns a key the operator typed
VxtKeyOp(k) ==
    /\ vx_ops < MaxOps
    /\ vx_ops' = vx_ops + 1
    /\ VxtRun(k)
    /\ UNCHANGED <<vx_kq, vx_asm, vx_cap, vx_rpc, vx_verdict, vx_fed, vx_raw, notVx>>

(***************************************************************************)
(* Dotmatrix: the decode loop of vxr main, one pass per capture            *)
(***************************************************************************)
\* a decode loop that takes any frame number
FrameWantedAny(frameno, a) == frameno # <<-1>>

\* frameno == asm.next_frame
FrameWanted(frameno, a) == frameno = Wide(a.next_frame)

\* what asm.put(frameno, bits) does to the receiver
VxrPut(frameno, data) ==
    \E r \in {Put(vx_asm, frameno, data)} :
        /\ vx_asm' = r.a
        /\ vx_fed' = Append(vx_fed, frameno)
        /\ vx_rpc' = IF r.a.exc # "" THEN "dead" ELSE IF r.ret THEN "done" ELSE "run"

VxrLoop(flip) ==
    \E yuv \in {Capture(vx_scr, flip)} :
    \E bits \in {ScanBits(yuv, vx_term)} :
    \E fr \in {FrameNo(bits)} :
        /\ vx_rpc = "run"
        /\ IF vx_cap = yuv
           THEN /\ vx_verdict' = "same"
                /\ UNCHANGED <<vx_cap, vx_asm, vx_kq, vx_rpc, vx_fed>>
           ELSE /\ vx_cap' = yuv
                /\ IF FrameCksum(bits) # FrameCksum2(bits)
                   THEN /\ vx_verdict' = "badsum"
                        /\ UNCHANGED <<vx_asm, vx_kq, vx_rpc, vx_fed>>
                   ELSE IF ~FrameWanted(fr.val, vx_asm)
                   THEN /\ vx_verdict' = "wrongno"
                        /\ UNCHANGED <<vx_asm, vx_kq, vx_rpc, vx_fed>>
                   ELSE /\ vx_verdict' = "put"
                        /\ vx_kq' = vx_kq + 1
                        /\ VxrPut(VleInt(fr.val), FrameData(bits))
        /\ UNCHANGED <<vx_files, vx_term, vx_tpc, vx_frames, vx_cur, vx_pend,
                       vx_scr, vx_ops, vx_raw, notVx>>

\* both tools started, the receiver calibrated on the calibration screen and
\* sent its first switch_frame
InitVxOn(sets, sizes) ==
    /\ vx_files \in sets
    /\ vx_term \in sizes
    /\ vx_tpc = "run"
    /\ vx_frames = <<>>
    /\ vx_cur = -1
    /\ vx_pend = [n |-> -1, scr |-> <<>>]
    /\ vx_scr = calibration_boxes(vx_term[1], vx_term[2])
    /\ vx_kq = 1
    /\ vx_ops = 0
    /\ vx_asm = NewAssembler
    /\ vx_cap = <<>>
    /\ vx_rpc = "run"
    /\ vx_verdict = "none"
    /\ vx_fed = <<>>
    /\ vx_raw = NoRaw
    /\ IdleVle
    /\ IdleAx
    /\ IdleKb
    /\ IdleKx
    /\ IdleHx

InitVx == InitVxOn(ScrFileSets, ScrTermSizes)

NextVx ==
    \/ VxtKeyRx
    \/ \E k \in {"a", "d"} : VxtKeyOp(k)
    \/ \E flip \in {0} \cup FlipAt : VxrLoop(flip)

SpecVx == InitVx /\ [][NextVx]_vars

\* C9: in the decode loop a captured frame is handed to Assembler.put only if
\* its recomputed checksum equals the claimed one and its frame number is
\* the assembler's next expected frame; any other new capture leaves the
\* assembler as it was, sends no paging keystroke and does not end the receiver.
C9_FrameAcceptance ==
    [][vx_cap' # vx_cap =>
        LET bits == ScanBits(vx_cap', vx_term)
            good == /\ FrameCksum(bits) = FrameCksum2(bits)
                    /\ FrameNo(bits).val = Wide(vx_asm.next_frame)
        IN  /\ vx_fed' # vx_fed => good
            /\ ~good => /\ vx_asm' = vx_asm
                        /\ vx_fed' = vx_fed
                        /\ vx_kq' = vx_kq
                        /\ vx_rpc' = vx_rpc]_vars

\* a frame with a good checksum and the wrong number has just been discarded,
\* after an earlier frame was accepted
C9_Witness ==
    /\ vx_verdict = "wrongno"
    /\ vx_fed # <<>>
    /\ vx_rpc = "run"

(***************************************************************************)
(* Dotmatrix: frames of gen_frame handed straight to Assembler.put, in any *)
(* arrival order that stays within MaxAhead of the expected frame          *)
(***************************************************************************)
AsmPut(n) ==
    \E r \in {get_frame_info(vx_files, NBits(vx_term), vx_frames, n)} :
        /\ vx_rpc = "run"
        /\ \A i \in 1 .. Len(vx_fed) : vx_fed[i] # n
        /\ n <= vx_asm.next_frame + MaxAhead
        /\ ~r.err
        /\ r.inf # <<>>
        /\ vx_frames' = r.frames
        /\ \E bits \in {gen_frame(vx_files, NBits(vx_term), n, r.inf)} :
               VxrPut(n, FrameData(bits))
        /\ UNCHANGED <<vx_files, vx_term, vx_tpc, vx_cur, vx_pend, vx_scr, vx_kq,
                       vx_ops, vx_cap, vx_verdict, vx_raw, notVx>>

InitAsm == InitVxOn(FileSets, TermSizes)

NextAsm == \E n \in 0 .. (MaxFrames - 1) : AsmPut(n)

SpecAsm == InitAsm /\ [][NextAsm]_vars

\* the frames arrived in frame order
InOrder(fed) == \A i \in 1 .. Len(fed) : fed[i] = i - 1

\* the file fo exists under inc/ with the bytes of the original
FileAt(a, fo) ==
    LET path == IncDir \o StoredName(fo.fn)
    IN  path \in DOMAIN a.fs /\ a.fs[path].data = fo.data

\* C2: frames fed to Assembler.put in frame order never end in an error, and
\* when put reports the transfer complete every file of the set exists under
\* inc/ with identical bytes, files_done is the number of files and
\* bytes_done the total size.
C2_EndToEnd ==
    (InOrder(vx_fed) /\ vx_rpc \in {"done", "dead"}) =>
        /\ vx_rpc = "done"
        /\ \A i \in 1 .. Len(vx_files) : FileAt(vx_asm, vx_files[i])
        /\ vx_asm.files_done = Len(vx_files)
        /\ vx_asm.bytes_done = SumSz(vx_files)

\* C3: the chunks of the frames, in frame order, start at bit 0 of the first
\* non-empty figment and each chunk continues where the one before it
\* stopped: at the same bit of the same figment, or at bit 0 of the next
\* non-empty figment once the previous figment is complete.
C3_FigmentPacking ==
    LET figs == FigsOf(vx_files)
        cs   == Concat(vx_frames)
    IN  \A i \in 1 .. Len(cs) :
            LET c == cs[i]
            IN  /\ c.bit1 < c.bit2
                /\ c.bit2 <= 8 * figs[c.fi].len
                /\ IF i = 1
                   THEN c.bit1 = 0 /\ \A j \in 1 .. (c.fi - 1) : figs[j].len = 0
                   ELSE LET p == cs[i - 1]
                        IN  \/ c.fi = p.fi /\ c.bit1 = p.bit2
                            \/ /\ c.fi > p.fi
                               /\ p.bit2 = 8 * figs[p.fi].len
                               /\ c.bit1 = 0
                               /\ \A j \in (p.fi + 1) .. (c.fi - 1) : figs[j].len = 0

\* what frames 0 .. last give when put in frame order, up to the put that
\* returns True or raises
RECURSIVE FeedInOrder(_, _, _)
FeedInOrder(a, n, last) ==
    IF n > last THEN a
    ELSE Only({ IF r.ret \/ r.a.exc # "" THEN r.a ELSE FeedInOrder(r.a, n + 1, last)
                : r \in {Put(a, n, FrameData(gen_frame(vx_files, NBits(vx_term), n,
                                                       vx_frames[n + 1])))} })

AsmResult(a) ==
    [fs |-> a.fs, files_done |-> a.files_done, bytes_done |-> a.bytes_done,
     exc |-> a.exc]

FedSet == {vx_fed[i] : i \in 1 .. Len(vx_fed)}

LastFed == CHOOSE n \in FedSet : \A m \in FedSet : m <= n

\* C4: whatever the arrival order, once the run is over or no frame is
\* missing below the latest one, the files, files_done, bytes_done and the
\* error state are those of the same frames put in frame order.
C4_OutOfOrder ==
    (vx_fed # <<>> /\ (vx_rpc \in {"done", "dead"} \/ FedSet = 0 .. (Len(vx_fed) - 1))) =>
        AsmResult(vx_asm) = AsmResult(FeedInOrder(NewAssembler, 0, LastFed))

\* the same for the arrival orders that begin with frame 0
C4_AfterFrame0 ==
    (vx_fed # <<>> /\ vx_fed[1] = 0) => C4_OutOfOrder

(***************************************************************************)
(* Keyboard transmitter (kx/kxt.py): the Typist, its queue, its thread _w  *)
(* and the keyboard backend.  A text is a sequence of character codes.     *)
(***************************************************************************)
\* calls of Typist.put in one run
MaxPuts == 2

\* the room in Typist.q (Queue(64) in the source)
MaxQ == 3

\* the batch length at which Kbd_Xdotool.send flushes
BatchLen == 4

\* self.hwnd, the window that had the focus when the transfer started
KbWindow == "target"

\* what WindowFocusProvider.get can find: a window, or nothing (None)
KbFocusValues == {"target", "other", "none"}

\* the texts main hands to Typist.put: "x" and "\nx"
KbTexts == {<<120>>, <<10, 120>>}

\* Typist.put: what goes into the queue for txt, every line with its "\n",
\* then the rest when it is not empty
RECURSIVE PutItems(_, _)
PutItems(txt, cur) ==
    IF txt = <<>> THEN (IF cur = <<>> THEN <<>> ELSE <<cur>>)
    ELSE IF txt[1] = 10 THEN <<Append(cur, 10)>> \o PutItems(Tail(txt), <<>>)
    ELSE PutItems(Tail(txt), Append(cur, txt[1]))

\* a flush that forgets the batch instead of typing it
KbdFlushDrop(kbd, batch, typed) == [batch |-> <<>>, typed |-> typed]

\* Kbd_Xdotool.flush / Kbd_Pynput.flush
KbdFlush(kbd, batch, typed) ==
    IF kbd = "xdotool"
    THEN [batch |-> <<>>, typed |-> typed \o Concat(batch)]
    ELSE [batch |-> batch, typed |-> typed]

\* Kbd_Xdotool.send / Kbd_Pynput.send; 65293 is the Enter key of pynput
KbdSend(kbd, batch, typed, txt) ==
    IF kbd = "xdotool"
    THEN Only({ IF Len(b1) >= BatchLen THEN KbdFlush(kbd, b1, typed)
                ELSE [batch |-> b1, typed |-> typed]
                : b1 \in {Append(batch, [i \in 1 .. Len(txt) |->
                                            IF txt[i] = 10 THEN 13 ELSE txt[i]])} })
    ELSE [batch |-> batch,
          typed |-> typed \o [i \in 1 .. Len(txt) |->
                                 IF txt[i] = 10 THEN 65293 ELSE txt[i]]]

\* main calls Typist.put(txt, crlf); q.put waits while the queue is full
KbPut(txt, crlf) ==
    \E items \in {PutItems(IF crlf THEN Append(txt, 10) ELSE txt, <<>>)} :
        /\ ~kb_ended
        /\ kb_nput < MaxPuts
        /\ Len(kb_q) + Len(items) <= MaxQ
        /\ kb_nput' = kb_nput + 1
        /\ kb_q' = kb_q \o items
        /\ UNCHANGED <<kb_kbd, kb_ended, kb_dead, kb_batch, kb_typed, kb_focus,
                       kb_due, kb_errs, kb_wpc, kb_lost, notKb>>

\* main calls Typist.end_input
KbEndInput ==
    /\ ~kb_ended
    /\ Len(kb_q) < MaxQ
    /\ kb_ended' = TRUE
    /\ kb_q' = Append(kb_q, <<>>)
    /\ UNCHANGED <<kb_kbd, kb_nput, kb_dead, kb_batch, kb_typed, kb_focus,
                   kb_due, kb_errs, kb_wpc, kb_lost, notKb>>

\* the operator, or the desktop, moves the focus
KbFocus(w) ==
    /\ w # kb_focus
    /\ kb_focus' = w
    /\ UNCHANGED <<kb_kbd, kb_q, kb_nput, kb_ended, kb_dead, kb_batch, kb_typed,
                   kb_due, kb_errs, kb_wpc, kb_lost, notKb>>

\* more than 0.5 s pass since last_focus_check
KbTick ==
    /\ ~kb_due
    /\ kb_due' = TRUE
    /\ UNCHANGED <<kb_kbd, kb_q, kb_nput, kb_ended, kb_dead, kb_batch, kb_typed,
                   kb_focus, kb_errs, kb_wpc, kb_lost, notKb>>

\* one pass of the loop of Typist._w, with what follows the loop when the
\* item is None; title is what the second look, wfp.get(True), finds
KbW ==
    /\ kb_wpc = "run"
    /\ kb_q # <<>>
    /\ kb_q' = Tail(kb_q)
    /\ \E txt \in {Head(kb_q)} :
        IF txt = <<>>
        THEN \E r \in {KbdFlush(kb_kbd, kb_batch, kb_typed)} :
                /\ kb_batch' = r.batch
                /\ kb_typed' = r.typed
                /\ kb_wpc' = "end"
                /\ UNCHANGED <<kb_dead, kb_due, kb_errs, kb_lost>>
        ELSE IF kb_dead
        THEN UNCHANGED <<kb_dead, kb_batch, kb_typed, kb_due, kb_errs, kb_wpc, kb_lost>>
        ELSE IF kb_due /\ kb_focus # KbWindow
        THEN \E title \in KbFocusValues :
                /\ kb_lost' = <<Len(kb_typed)>>
                /\ IF title = "none"
                   THEN kb_wpc' = "crashed" /\ UNCHANGED <<kb_dead, kb_errs>>
                   ELSE /\ kb_errs' = kb_errs + 1
                        /\ kb_dead' = TRUE
                        /\ UNCHANGED kb_wpc
                /\ UNCHANGED <<kb_batch, kb_typed, kb_due>>
        ELSE \E r \in {KbdSend(kb_kbd, kb_batch, kb_typed, txt)} :
                /\ kb_due' = FALSE
                /\ kb_batch' = r.batch
                /\ kb_typed' = r.typed
                /\ UNCHANGED <<kb_dead, kb_errs, kb_wpc, kb_lost>>
    /\ UNCHANGED <<kb_kbd, kb_nput, kb_ended, kb_focus, notKb>>

\* the Typist as main builds it: the thread started, nothing queued, the
\* target window focused, last_focus_check = 0
InitKbd ==
    /\ kb_kbd \in {"xdotool", "pynput"}
    /\ kb_q = <<>>
    /\ kb_nput = 0
    /\ kb_ended = FALSE
    /\ kb_dead = FALSE
    /\ kb_batch = <<>>
    /\ kb_typed = <<>>
    /\ kb_focus = KbWindow
    /\ kb_due = TRUE
    /\ kb_errs = 0
    /\ kb_wpc = "run"
    /\ kb_lost = <<>>
    /\ IdleVle
    /\ IdleAx
    /\ IdleVx
    /\ IdleKx
    /\ IdleHx

NextKbd ==
    \/ \E txt \in KbTexts, crlf \in BOOLEAN : KbPut(txt, crlf)
    \/ KbEndInput
    \/ \E w \in KbFocusValues : KbFocus(w)
    \/ KbTick
    \/ KbW

SpecKbd == InitKbd /\ [][NextKbd]_vars

\* the keystroke half of C5: nothing is typed after the thread saw the
\* focus on another window
C5_NoKeyAfterLoss == kb_lost # <<>> => Len(kb_typed) = kb_lost[1]

\* the logging half of C5: the loss is logged, once
C5_LoggedOnce == kb_lost # <<>> => kb_errs = 1

\* C5: once the typing thread has seen that the focused window is not the one
\* recorded at start, no further keystroke is typed for the rest of the
\* session (queued text, later puts and text the batching backend holds
\* included), and the loss is logged exactly once.
C5_FocusGuard ==
    kb_lost # <<>> => (Len(kb_typed) = kb_lost[1] /\ kb_errs = 1)

\* the same for the run in which the second look finds a window and the
\* backend types every text as it gets it
C5_Unbatched ==
    (kb_kbd = "pynput" /\ kb_wpc # "crashed") => C5_FocusGuard

(***************************************************************************)
(* Keyboard transmitter (kx/kxt.py): the stream pipeline of main as main   *)
(* pulls it: the stage below the hash (StreamFile, or StreamGzip), then    *)
(* StreamHash, then StreamBase64 unless -p, then the loop of main.  A      *)
(* generator is resumed up to its next yield; None is the end marker.      *)
(***************************************************************************)
\* the bytes of the whole stream below the hash stage
MaxIn == 4

\* the bytes that occur: "\n", "A" and 0xFF
KxBytes == {10, 65, 255}

\* ar.length
KxWraps == {3, 8}

None == <<-1>>

\* every way to cut d into chunks that are not empty
RECURSIVE Chunkings(_)
Chunkings(d) ==
    IF d = <<>> THEN {<<>>}
    ELSE UNION {{<<Take(d, k)>> \o c : c \in Chunkings(Drop(d, k))} : k \in 1 .. Len(d)}

\* the chunk sequences of the stage below the hash stage; StreamFile and
\* StreamGzip yield no empty chunk
KxSources == UNION {Chunkings(d) : d \in UNION {[1 .. n -> KxBytes] : n \in 0 .. MaxIn}}

\* the same with one empty chunk somewhere
KxSourcesEmpty ==
    UNION {{SubSeq(c, 1, i) \o <<<<>>>> \o SubSeq(c, i + 1, Len(c)) : i \in 0 .. Len(c)}
           : c \in KxSources}

\* stands for hashlib.md5: the digest of everything given to update, in order
Md5(upd) == Digest(Concat(upd), 16)

HexDigit(n) == IF n < 10 THEN 48 + n ELSE 97 + (n - 10)

\* hexdigest
Hexlify(buf) ==
    [i \in 1 .. (2 * Len(buf)) |->
        IF i % 2 = 1 THEN HexDigit(buf[(i + 1) \div 2] \div 16)
        ELSE HexDigit(buf[i \div 2] % 16)]

\* StreamHash.get_hash
get_hash(h) == Hexlify(Md5(h.upd))

\* self.hasher.update(buf)
HashUpdate(upd, buf) == Append(upd, buf)

\* StreamHash.collect resumed: one item of src_gen, up to the yield
HashNext(h, src, pos) ==
    IF pos < Len(src)
    THEN [h |-> [h EXCEPT !.upd = HashUpdate(@, src[pos + 1]),
                          !.out = Append(@, src[pos + 1])],
          pos |-> pos + 1, y |-> src[pos + 1]]
    ELSE [h |-> [h EXCEPT !.pc = "eof"], pos |-> pos + 1, y |-> None]

\* the base64 alphabet
B64Char(i) ==
    IF i < 26 THEN 65 + i
    ELSE IF i < 52 THEN 97 + (i - 26)
    ELSE IF i < 62 THEN 48 + (i - 52)
    ELSE IF i = 62 THEN 43 ELSE 47

Sextet(bits, x) ==
    bits[x + 1] * 32 + bits[x + 2] * 16 + bits[x + 3] * 8 + bits[x + 4] * 4 +
    bits[x + 5] * 2 + bits[x + 6]

\* base64.b64encode: six bits per character, the last group filled with zero
\* bits, "=" up to a multiple of four characters
b64encode(buf) ==
    Only({ [i \in 1 .. (Len(bits) \div 6) |-> B64Char(Sextet(bits, 6 * (i - 1)))]
               \o Rep(61, (4 - ((Len(bits) \div 6) % 4)) % 4)
           : bits \in {bstr2bits(buf) \o Zeros((6 - ((8 * Len(buf)) % 6)) % 6)} })

\* a base64 stage that encodes everything it holds
B64OfsAll(n) == n

\* ofs of StreamBase64.collect before the end of the stream
B64Ofs(n) == (n \div 3) * 3

\* StreamBase64.collect from "buf = self.buf[:ofs]" to the yield; r is what
\* the hash stage was left as
B64Yield(b, ofs, eof, r) ==
    [b |-> [b EXCEPT !.buf = Drop(@, ofs),
                     !.blk = Append(@, Take(b.buf, ofs)),
                     !.out = Append(@, b64encode(Take(b.buf, ofs))),
                     !.pc = IF eof THEN "eof" ELSE "run"],
     h |-> r.h, pos |-> r.pos, y |-> b64encode(Take(b.buf, ofs))]

\* StreamBase64.collect resumed, up to its next yield
RECURSIVE B64Next(_, _, _, _)
B64Next(b, h, src, pos) ==
    IF b.pc = "eof"
    THEN [b |-> [b EXCEPT !.pc = "done"], h |-> h, pos |-> pos, y |-> None]
    ELSE Only({
        IF r.y = None THEN B64Yield(b, Len(b.buf), TRUE, r)
        ELSE IF (Len(b.buf) + Len(r.y)) \div 3 = 0
        THEN B64Next([b EXCEPT !.buf = @ \o r.y], r.h, src, r.pos)
        ELSE B64Yield([b EXCEPT !.buf = @ \o r.y], B64Ofs(Len(b.buf) + Len(r.y)), FALSE, r)
        : r \in {HashNext(h, src, pos)} })

\* buf.decode("utf-8", "ignore") for the bytes of KxBytes: 0xFF is part of
\* no UTF-8 sequence and is left out
Utf8Ignore(buf) ==
    LET ascii(c) == c < 128
    IN  SelectSeq(buf, ascii)

\* a loop that throws away what is left of the buffer
RECURSIVE MainWrapNoLeftovers(_, _, _)
MainWrapNoLeftovers(buf, wrap, puts) ==
    IF Len(buf) >= wrap
    THEN MainWrapNoLeftovers(Drop(buf, wrap), wrap, Append(puts, Take(buf, wrap)))
    ELSE [puts |-> puts, leftovers |-> <<>>]

\* the while loop of main for the encoded stream
RECURSIVE MainWrap(_, _, _)
MainWrap(buf, wrap, puts) ==
    IF Len(buf) >= wrap
    THEN MainWrap(Drop(buf, wrap), wrap, Append(puts, Take(buf, wrap)))
    ELSE [puts |-> puts, leftovers |-> buf]

\* the lines of main for plaintext: buf.replace("\r", "").split("\n")
RECURSIVE MainLines(_, _, _)
MainLines(buf, cur, puts) ==
    IF buf = <<>> THEN [puts |-> puts, leftovers |-> cur]
    ELSE IF buf[1] = 10 THEN MainLines(Tail(buf), <<>>, Append(puts, cur))
    ELSE IF buf[1] = 13 THEN MainLines(Tail(buf), cur, puts)
    ELSE MainLines(Tail(buf), Append(cur, buf[1]), puts)

\* a main that stops at the first buffer
MainStopAtOnce(buf) == TRUE

\* "if not buf: break"
MainStop(buf) == buf = None \/ buf = <<>>

\* next(s.collect()) for the last stage s
KxNext ==
    IF kx_cfg.plain
    THEN Only({ [b |-> kx_b64, h |-> r.h, pos |-> r.pos, y |-> r.y]
                : r \in {HashNext(kx_hash, kx_cfg.src, kx_pos)} })
    ELSE B64Next(kx_b64, kx_hash, kx_cfg.src, kx_pos)

\* one pass of the for loop of main with a buffer
KxMainIter ==
    /\ kx_main.pc = "loop"
    /\ \E r \in {KxNext} :
        /\ ~MainStop(r.y)
        /\ kx_pos' = r.pos
        /\ kx_hash' = r.h
        /\ kx_b64' = r.b
        /\ \E m \in {IF kx_cfg.plain
                     THEN MainLines(kx_main.leftovers \o Utf8Ignore(r.y), <<>>, <<>>)
                     ELSE MainWrap(kx_main.leftovers \o Utf8Ignore(r.y),
                                   kx_cfg.wrap, <<>>)} :
              kx_main' = [kx_main EXCEPT
                  !.leftovers = m.leftovers,
                  !.puts = @ \o [i \in 1 .. Len(m.puts) |->
                                    [txt |-> m.puts[i], footer |-> FALSE]]]
    /\ UNCHANGED <<kx_cfg, kx_boot, notKx>>

\* the pass that ends the loop, and main from there to kbd.end_input(): the
\* leftovers, get_hash, the footer with the digest in it
KxMainEnd ==
    /\ kx_main.pc = "loop"
    /\ \E r \in {KxNext} :
        /\ MainStop(r.y)
        /\ kx_pos' = r.pos
        /\ kx_hash' = r.h
        /\ kx_b64' = r.b
        /\ kx_main' = [leftovers |-> kx_main.leftovers,
                       puts |-> kx_main.puts
                           \o (IF kx_main.leftovers # <<>>
                               THEN <<[txt |-> kx_main.leftovers, footer |-> FALSE]>>
                               ELSE <<>>)
                           \o <<[txt |-> get_hash(r.h), footer |-> TRUE]>>,
                       md5 |-> <<get_hash(r.h)>>,
                       pc |-> "done"]
    /\ UNCHANGED <<kx_cfg, kx_boot, notKx>>

InitKxOn(plains, sources) ==
    /\ kx_cfg \in [plain : plains, wrap : KxWraps, src : sources]
    /\ kx_pos = 0
    /\ kx_hash = NewStreamHash
    /\ kx_b64 = NewStreamBase64
    /\ kx_main = [leftovers |-> <<>>, puts |-> <<>>, md5 |-> <<>>, pc |-> "loop"]
    /\ kx_boot = NoBoot
    /\ IdleVle
    /\ IdleAx
    /\ IdleVx
    /\ IdleKb
    /\ IdleHx

\* main with and without -p
InitKx == InitKxOn(BOOLEAN, KxSources)

\* the base64 stage fed with any chunks, empty ones too
InitB64 == InitKxOn({FALSE}, KxSources \cup KxSourcesEmpty)

NextKx == KxMainIter \/ KxMainEnd

SpecKx == InitKx /\ [][NextKx]_vars

SpecB64 == InitB64 /\ [][NextKx]_vars

\* C6: whatever the chunks, every block StreamBase64.collect encodes before
\* the end of the stream has a length that is a positive multiple of 3 and an
\* encoding without "=", the blocks and the held bytes are the input so far,
\* the chunks yielded are the base64 of the blocks taken as one, and from the
\* end of the stream on they are the base64 of the whole input.
C6_Base64Streaming ==
    /\ \A i \in 1 .. Len(kx_b64.blk) :
          (i < Len(kx_b64.blk) \/ kx_b64.pc = "run") =>
              /\ Len(kx_b64.blk[i]) > 0
              /\ Len(kx_b64.blk[i]) % 3 = 0
              /\ \A j \in 1 .. Len(kx_b64.out[i]) : kx_b64.out[i][j] # 61
    /\ Concat(kx_b64.blk) \o kx_b64.buf = Concat(kx_hash.out)
    /\ Concat(kx_b64.out) = b64encode(Concat(kx_b64.blk))
    /\ kx_b64.pc # "run" => Concat(kx_b64.out) = b64encode(Concat(kx_cfg.src))

\* the stream came in several chunks, one of them empty, was encoded in
\* several blocks and the last block needed padding
C6_Witness ==
    /\ kx_b64.pc = "done"
    /\ Len(kx_b64.out) >= 2
    /\ \E i \in 1 .. Len(kx_cfg.src) : kx_cfg.src[i] = <<>>
    /\ \E i \in 1 .. Len(kx_cfg.src) : Len(kx_cfg.src[i]) % 3 # 0
    /\ kx_b64.out[Len(kx_b64.out)][Len(kx_b64.out[Len(kx_b64.out)])] = 61

\* C7: the hash stage yields every buffer it hashed, unchanged and in order,
\* they are the buffers of the stage below it, and once main has read the
\* digest the hash stage has seen the end marker, has hashed every buffer
\* of the stream once and in order, and the digest is the one of those bytes.
C7_ChecksumStage ==
    /\ kx_hash.out = kx_hash.upd
    /\ IsPrefix(kx_hash.upd, kx_cfg.src)
    /\ kx_main.md5 # <<>> =>
          /\ kx_hash.pc = "eof"
          /\ kx_hash.upd = kx_cfg.src
          /\ kx_main.md5[1] = Hexlify(Md5(kx_cfg.src))
          /\ kx_main.puts[Len(kx_main.puts)] = [txt |-> kx_main.md5[1], footer |-> TRUE]

\* main has read the digest of a stream of several buffers, with base64
\* still holding bytes when the last buffer came
C7_Witness ==
    /\ kx_main.md5 # <<>>
    /\ ~kx_cfg.plain
    /\ Len(kx_cfg.src) >= 2
    /\ Len(Concat(kx_cfg.src)) % 3 # 0

\* the same in plaintext mode
C7_WitnessPlain ==
    /\ kx_main.md5 # <<>>
    /\ kx_cfg.plain
    /\ Len(kx_cfg.src) >= 2

(***************************************************************************)
(* Audio receiver: A.rd alone, on any output of one decoder, read in any   *)
(* chunks of up to MaxRd bytes                                             *)
(***************************************************************************)
\* bytes of the decoder output
MaxWire == 4

\* the bytes that occur in it: zero, the sentinel, and two others
RdBytes == {0, 7, 65, 255}

\* one pass of the loop of A.rd: p.stdout.read returned k bytes
RdPass(k) ==
    /\ k \in 1 .. Min(MaxRd, Len(ax_rd.out))
    /\ \E r \in {RdChunk(ax_rd.pad, Take(ax_rd.out, k))} :
          ax_rd' = [out |-> Drop(ax_rd.out, k), pad |-> r.pad,
                    dec |-> ax_rd.dec \o r.add,
                    got |-> ax_rd.got \o Take(ax_rd.out, k)]
    /\ UNCHANGED <<ax_nch, ax_B, ax_in, ax_rem, ax_tpc, ax_wire, ax_pad, ax_dec,
                   ax_out, ax_emitted, ax_exit, ax_emit, ax_err, ax_run, notAx>>

InitAxRd ==
    /\ ax_nch = 0
    /\ ax_B = <<>>
    /\ ax_in = <<>>
    /\ ax_rem = <<>>
    /\ ax_tpc = "idle"
    /\ ax_wire = <<>>
    /\ ax_pad = <<>>
    /\ ax_dec = <<>>
    /\ ax_out = <<>>
    /\ ax_emitted = 0
    /\ ax_exit = 0
    /\ ax_emit = "none"
    /\ ax_err = FALSE
    /\ ax_rd \in [out : UNION {[1 .. n -> RdBytes] : n \in 0 .. MaxWire},
                  pad : {TRUE}, dec : {<<>>}, got : {<<>>}]
    /\ ax_run = IdleRun
    /\ IdleVle
    /\ IdleVx
    /\ IdleKb
    /\ IdleKx
    /\ IdleHx

NextAxRd == \E k \in 1 .. MaxRd : RdPass(k)

SpecAxRd == InitAxRd /\ [][NextAxRd]_vars

\* where the priming pad ends in s: the position of the first 0xFF when
\* only zero bytes come before it, else 0
PadEnd(s) ==
    IF \E i \in 1 .. Len(s) : s[i] # 0
    THEN LET i == CHOOSE j \in 1 .. Len(s) : s[j] # 0 /\ \A m \in 1 .. (j - 1) : s[m] = 0
         IN  IF s[i] = 255 THEN i ELSE 0
    ELSE 0

\* C11: whatever the read chunks, the decode buffer of a channel is empty
\* until the 0xFF that follows only zero bytes has been read, and from then
\* on it holds exactly the bytes read after that 0xFF; a channel whose
\* output has no such sentinel never gets a byte.
C11_PrimingPad ==
    ax_rd.dec = IF PadEnd(ax_rd.got) = 0 THEN <<>>
                ELSE Drop(ax_rd.got, PadEnd(ax_rd.got))

\* the part of C11 about an output that starts with the priming pad
C11_PadThenData ==
    PadEnd(ax_rd.got) # 0 => ax_rd.dec = Drop(ax_rd.got, PadEnd(ax_rd.got))

\* the part of C11 about an output without any 0xFF
C11_NoSentinel ==
    (\A i \in 1 .. Len(ax_rd.got) : ax_rd.got[i] # 255) => ax_rd.dec = <<>>

(***************************************************************************)
(* Audio receiver: the input loop of A.run and its silence test.  A peak   *)
(* is written in hundredths: 10 is the 0.1 the loop compares with          *)
(***************************************************************************)
\* iterations on an input that is free to be loud
MaxIter == 7

\* a ceiling for the iteration count n, which is kept for the properties only
IterCap == MaxIter + 8

PeakValues == {0, 5, 10, 50}

\* the peaks of an input that stays below 0.1
QuietPeaks == {p \in PeakValues : p < 10}

RECURSIVE SeqMax(_)
SeqMax(s) == IF s = <<>> THEN 0 ELSE Max(Head(s), SeqMax(Tail(s)))

\* vhist[-5:] + [peak]
VhistPush(vhist, peak) ==
    Drop(vhist, Max(0, Len(vhist) - 5)) \o <<peak>>

\* a loop that takes any dip for silence
SilentAnytime(vol, runtime) == vol < 10

\* elif vol < 0.1 and runtime > 4
Silent(vol, runtime) == vol < 10 /\ runtime > 4

\* one iteration of the loop: the read returned samples of the given peak
RunRead(peak) ==
    /\ ax_run.pc = "read"
    /\ IF ax_run.mode = "quiet" THEN peak \in QuietPeaks ELSE ax_run.n < MaxIter
    /\ \E vh \in {VhistPush(ax_run.vhist, peak)} :
          ax_run' = [ax_run EXCEPT
              !.vhist = vh,
              !.n = Min(IterCap, @ + 1),
              !.runtime = IF peak > 10 THEN @ + 1 ELSE @,
              !.pc = IF peak <= 10 /\ Silent(SeqMax(vh), ax_run.runtime)
                     THEN "silent" ELSE "read"]
    /\ UNCHANGED <<ax_nch, ax_B, ax_in, ax_rem, ax_tpc, ax_wire, ax_pad, ax_dec,
                   ax_out, ax_emitted, ax_exit, ax_emit, ax_err, ax_rd, notAx>>

\* the read returned nothing: end of input
RunEof ==
    /\ ax_run.pc = "read"
    /\ ax_run.mode = "any"
    /\ ax_run' = [ax_run EXCEPT !.pc = "eof"]
    /\ UNCHANGED <<ax_nch, ax_B, ax_in, ax_rem, ax_tpc, ax_wire, ax_pad, ax_dec,
                   ax_out, ax_emitted, ax_exit, ax_emit, ax_err, ax_rd, notAx>>

\* the sender falls silent: from here on the input goes on and stays below 0.1
RunQuiet ==
    /\ ax_run.pc = "read"
    /\ ax_run.mode = "any"
    /\ ax_run' = [ax_run EXCEPT !.mode = "quiet"]
    /\ UNCHANGED <<ax_nch, ax_B, ax_in, ax_rem, ax_tpc, ax_wire, ax_pad, ax_dec,
                   ax_out, ax_emitted, ax_exit, ax_emit, ax_err, ax_rd, notAx>>

InitRun ==
    /\ ax_nch = 0
    /\ ax_B = <<>>
    /\ ax_in = <<>>
    /\ ax_rem = <<>>
    /\ ax_tpc = "idle"
    /\ ax_wire = <<>>
    /\ ax_pad = <<>>
    /\ ax_dec = <<>>
    /\ ax_out = <<>>
    /\ ax_emitted = 0
    /\ ax_exit = 0
    /\ ax_emit = "none"
    /\ ax_err = FALSE
    /\ ax_rd = IdleRd
    /\ ax_run = [IdleRun EXCEPT !.pc = "read"]
    /\ IdleVle
    /\ IdleVx
    /\ IdleKb
    /\ IdleKx
    /\ IdleHx

NextRun ==
    \/ \E peak \in PeakValues : RunRead(peak)
    \/ RunEof
    \/ RunQuiet

\* the blocking read returns as long as there is input, and the loop body
\* always comes back to it
SpecRun == InitRun /\ [][NextRun]_vars /\ WF_vars(\E peak \in PeakValues : RunRead(peak))

\* C12: once more than 4 iterations had a peak above 0.1 and the input stays
\* below 0.1 from then on, the input loop eventually stops on silence, with
\* input still to come; and the loop never stops on silence in one of its
\* first 4 iterations, whatever dips below 0.1 there.
C12_SilenceStop ==
    /\ (ax_run.mode = "quiet" /\ ax_run.runtime > 4) ~> (ax_run.pc = "silent")
    /\ [](ax_run.n <= 4 => ax_run.pc # "silent")

\* the loop has stopped on silence
C12_Witness ==
    /\ ax_run.pc = "silent"
    /\ ax_run.mode = "quiet"
    /\ ax_run.runtime > 4
    /\ ax_run.n < IterCap

(***************************************************************************)
(* Dotmatrix: what the Assembler leaves behind when a received file fails  *)
(* its checksum                                                            *)
(***************************************************************************)
\* the files whose modification time os.utime has set
Stamped(a) == {fn \in DOMAIN a.fs : a.fs[fn].mtime # <<>>}

\* the Assembler after the raise
Corrupted(a) ==
    /\ a.payload # <<>>
    /\ Len(a.fs[a.payload[1].fn].data) >= a.payload[1].sz
    /\ a.payload[1].cksum # Digest(a.fs[a.payload[1].fn].data, 16)
    /\ a.fs[a.payload[1].fn].mtime = <<>>
    /\ a.files_done = Cardinality(Stamped(a))
    /\ a.fig_no = 2 * a.files_done + 2

\* C13: when a file has reached its declared size and its recomputed
\* checksum differs from the one of its file header, put raises: the receiver
\* is dead, files_done still counts only the files verified before, the file
\* has no modification time, fig_no still names its payload figment, and no
\* step of the receiver follows.
C13_IntegrityFatal ==
    /\ [](vx_asm.exc = "file corrupted" => (vx_rpc = "dead" /\ Corrupted(vx_asm)))
    /\ [][vx_asm.exc # "file corrupted"]_vars

\* a file failed its checksum after another one had been verified
C13_Witness ==
    /\ vx_asm.exc = "file corrupted"
    /\ vx_asm.files_done = 1
    /\ vx_rpc = "dead"

(***************************************************************************)
(* Dotmatrix: how a run of frames put in frame order ends                  *)
(***************************************************************************)
\* the transmitter has no frame after the ones put
StreamOver ==
    \E r \in {get_frame_info(vx_files, NBits(vx_term), vx_frames, Len(vx_fed))} :
        ~r.err /\ r.inf = <<>>

\* C14: frames put in frame order never make put raise, and once every frame
\* of the stream has been put, put has returned True.
C14_Completion ==
    (InOrder(vx_fed) /\ vx_fed # <<>>) =>
        /\ vx_rpc # "dead"
        /\ StreamOver => vx_rpc = "done"

\* the same for the file sets in which all files differ in size, whose
\* streams end
C14_DistinctSizes ==
    (\A i, j \in 1 .. Len(vx_files) : i # j => vx_files[i].sz # vx_files[j].sz)
        => C14_Completion

\* the same for the file sets with at least one byte in all
C14_NonEmpty ==
    (SumSz(vx_files) > 0
       /\ \A i, j \in 1 .. Len(vx_files) : i # j => vx_files[i].sz # vx_files[j].sz)
        => C14_Completion

(***************************************************************************)
(* Dotmatrix: the Assembler fed a stream of bytes directly, in frames of   *)
(* 1 to MaxChunk bytes put in frame order: a stream header of any version, *)
(* then the header of one file, whose name is any bytes, and its byte      *)
(***************************************************************************)
\* bytes of the received file name
MaxName == 4

\* bytes per frame
MaxChunk == 3

\* ".", "/" and "x"
NameBytes == {46, 47, 120}

RawNames == UNION {[1 .. n -> NameBytes] : n \in 0 .. MaxName}

\* 1 is the version the receiver supports; 129 takes two bytes
RawVersions == {0, 1, 2, 129}

\* the figments of a stream of one file of one byte, "A"
RawStream(ver, name) ==
    enc_vle(Wide(ver)) \o enc_vle(Wide(1)) \o enc_vle(Wide(1))
        \o enc_vle(Wide(1)) \o enc_vle(Wide(FileTs)) \o Digest(<<65>>, 16)
        \o enc_vle(Wide(Len(name))) \o name
        \o <<65>>

RawStreams ==
    {RawStream(1, name) : name \in RawNames} \cup
    {RawStream(ver, <<120>>) : ver \in RawVersions}

\* asm.put of the next k bytes as the next frame
FeedPut(k) ==
    /\ vx_rpc = "run"
    /\ k \in 1 .. Min(MaxChunk, Len(vx_raw.all) - vx_raw.pos)
    /\ VxrPut(Len(vx_fed), bstr2bits(SubSeq(vx_raw.all, vx_raw.pos + 1, vx_raw.pos + k)))
    /\ vx_raw' = [vx_raw EXCEPT !.pos = @ + k]
    /\ UNCHANGED <<vx_files, vx_term, vx_tpc, vx_frames, vx_cur, vx_pend, vx_scr,
                   vx_kq, vx_ops, vx_cap, vx_verdict, notVx>>

InitFeed ==
    /\ vx_files = <<>>
    /\ vx_term = <<0, 0>>
    /\ vx_tpc = "idle"
    /\ vx_frames = <<>>
    /\ vx_cur = -1
    /\ vx_pend = [n |-> -1, scr |-> <<>>]
    /\ vx_scr = <<>>
    /\ vx_kq = 0
    /\ vx_ops = 0
    /\ vx_asm = NewAssembler
    /\ vx_cap = <<>>
    /\ vx_rpc = "run"
    /\ vx_verdict = "none"
    /\ vx_fed = <<>>
    /\ vx_raw \in [all : RawStreams, pos : {0}]
    /\ IdleVle
    /\ IdleAx
    /\ IdleKb
    /\ IdleKx
    /\ IdleHx

NextFeed == \E k \in 1 .. MaxChunk : FeedPut(k)

SpecFeed == InitFeed /\ [][NextFeed]_vars

\* the bytes put so far
RawPut == Take(vx_raw.all, vx_raw.pos)

\* C15: when the first VLE of the bytes the Assembler is given does not decode
\* to 1, put raises "this vxr supports version 1 only": the receiver is dead
\* (an uncaught exception, exit status 1), at figment 0, and no file exists.
C15_VersionFatal ==
    (vx_fed # <<>> /\ VleInt(dec_vle(RawPut).val) # 1) =>
        /\ vx_rpc = "dead"
        /\ vx_asm.exc = "this vxr supports version 1 only"
        /\ vx_asm.fig_no = 0
        /\ vx_asm.fs = <<>>

\* a whole stream header of version 2 has been put
C15_Witness ==
    /\ vx_raw.all[1] = 2
    /\ vx_raw.pos >= 3
    /\ vx_rpc = "dead"
    /\ vx_asm.exc = "this vxr supports version 1 only"

\* the stream header is whole in buf: its three VLEs decode
HeaderComplete(buf) ==
    \E r1 \in {dec_vle_it(buf, 0)} :
    \E r2 \in {dec_vle_it(buf, r1.used)} :
    \E r3 \in {dec_vle_it(buf, r1.used + r2.used)} :
        r1.ate > 0 /\ r2.ate > 0 /\ r3.ate > 0

\* C16: while frame 0 has not arrived, so that figment 0 finds no byte of
\* the stream header, put waits: it raises nothing, fig_no stays 0,
\* files_total and bytes_total stay unset and nothing is consumed.
C16_IncompleteHeader ==
    (vx_fed # <<>> /\ 0 \notin FedSet) =>
        /\ vx_rpc = "run"
        /\ vx_asm.exc = ""
        /\ vx_asm.fig_no = 0
        /\ vx_asm.files_total = <<>>
        /\ vx_asm.bytes_total = <<>>
        /\ vx_asm.buf = <<>>
        /\ vx_asm.next_frame = 0

\* the same for a version 1 stream header that arrives in pieces, in order:
\* until it is whole the Assembler holds the bytes and waits
C16_PartialHeader ==
    (vx_raw.all # <<>> /\ vx_raw.all[1] = 1 /\ vx_fed # <<>> /\ ~HeaderComplete(RawPut)) =>
        /\ vx_rpc = "run"
        /\ vx_asm.exc = ""
        /\ vx_asm.fig_no = 0
        /\ vx_asm.files_total = <<>>
        /\ vx_asm.bytes_total = <<>>
        /\ vx_asm.buf = RawPut

\* the path lies inside the directory inc of the working directory
InsideInc(path) ==
    \E r \in {ResolvePath(path)} :
        r.up = 0 /\ Len(r.at) >= 2 /\ r.at[1] = <<105, 110, 99>>

\* C17: whatever the name bytes of the file header, every file the Assembler
\* has created lies inside inc/.
C17_OutputConfinement ==
    \A path \in DOMAIN vx_asm.fs : InsideInc(path)

\* the same for the names without a ".." component
C17_NoDotDot ==
    \A path \in DOMAIN vx_asm.fs :
        (\A i \in 1 .. Len(SplitPath(path, <<>>)) : SplitPath(path, <<>>)[i] # <<46, 46>>)
            => InsideInc(path)

(***************************************************************************)
(* Dotmatrix transmitter: the file header figment of a path of the command *)
(* line                                                                    *)
(***************************************************************************)
\* bytes of a path
MaxPath == 4

\* ".", "/", ":", "\" and "c"
PathBytes == {46, 47, 58, 92, 99}

\* the paths that can name a regular file (os.path.isfile): the last
\* component is a name
CmdPaths ==
    {fn \in UNION {[1 .. n -> PathBytes] : n \in 1 .. MaxPath} :
        \E c \in {SplitPath(fn, <<>>)} : c[Len(c)] \notin {<<>>, <<46>>, <<46, 46>>}}

\* Vxt.gen_header for the one file of the command line
GenHeader ==
    /\ vx_tpc = "run"
    /\ vx_raw = NoRaw
    /\ vx_raw' = [all |-> gen_header(vx_files[1], FALSE), pos |-> 0]
    /\ UNCHANGED <<vx_files, vx_term, vx_tpc, vx_frames, vx_cur, vx_pend, vx_scr,
                   vx_kq, vx_ops, vx_asm, vx_cap, vx_rpc, vx_verdict, vx_fed, notVx>>

InitName ==
    /\ vx_files \in {<<[fn |-> fn, sz |-> 1, ts |-> FileTs, data |-> <<65>>]>> : fn \in CmdPaths}
    /\ vx_term = <<0, 0>>
    /\ vx_tpc = "run"
    /\ vx_frames = <<>>
    /\ vx_cur = -1
    /\ vx_pend = [n |-> -1, scr |-> <<>>]
    /\ vx_scr = <<>>
    /\ vx_kq = 0
    /\ vx_ops = 0
    /\ vx_asm = NewAssembler
    /\ vx_cap = <<>>
    /\ vx_rpc = "idle"
    /\ vx_verdict = "none"
    /\ vx_fed = <<>>
    /\ vx_raw = NoRaw
    /\ IdleVle
    /\ IdleAx
    /\ IdleKb
    /\ IdleKx
    /\ IdleHx

NextName == GenHeader

SpecName == InitName /\ [][NextName]_vars

\* the name bytes of a file header figment: what follows the two VLEs, the
\* 16 checksum bytes and the VLE of the name length
HeaderName(h) ==
    Only({ Only({ Only({
        Slice(h, r1.ate + r2.ate + 16 + r3.ate,
              r1.ate + r2.ate + 16 + r3.ate + VleInt(r3.val))
        : r3 \in {dec_vle_it(h, r1.ate + r2.ate + 16)} })
        : r2 \in {dec_vle_it(h, r1.ate)} })
        : r1 \in {dec_vle_it(h, 0)} })

\* C18: the name bytes of the file header figment have no backslash, no
\* leading "/" (so no UNC prefix), no drive letter prefix and no leading "../".
C18_StoredName ==
    vx_raw # NoRaw =>
        \E name \in {HeaderName(vx_raw.all)} :
            /\ \A i \in 1 .. Len(name) : name[i] # 92
            /\ ~(Len(name) >= 1 /\ name[1] = 47)
            /\ ~(Len(name) >= 2 /\ name[1] = 99 /\ name[2] = 58)
            /\ ~(Len(name) >= 3 /\ Take(name, 3) = <<46, 46, 47>>)

\* the part of C18 about the slashes
C18_Slashes ==
    vx_raw # NoRaw =>
        \E name \in {HeaderName(vx_raw.all)} :
            /\ \A i \in 1 .. Len(name) : name[i] # 92
            /\ ~(Len(name) >= 1 /\ name[1] = 47)

(***************************************************************************)
(* Keyboard transmitter: main from the file list to the first keystrokes   *)
(***************************************************************************)
\* files selected on the command line
MaxCmdFiles == 3

\* window-focus detection: "missing" (HAVE_FOCUS_DETECT is false), "off"
\* (-nf), "fails" (the first wfp.get(True) returns nothing) or "ok"
FocusCases == {"missing", "off", "fails", "ok"}

\* an archive only for more than one file
ArchiveOnlyMany(nfiles, arc) == nfiles # 1

\* archive = True; if len(files) == 1 and not ar.arc: archive = False
ArchiveWanted(nfiles, arc) == ~(nfiles = 1 /\ ~arc)

\* the stream source and the filters main chains
StagesOf(archive, plain) ==
    (IF archive THEN <<"tar", "gzip">>
     ELSE IF plain THEN <<"file">> ELSE <<"file", "gzip">>)
        \o <<"hash">> \o (IF plain THEN <<>> ELSE <<"base64">>)

\* the packaging decision and the test for an archive as plaintext
StartDecide ==
    /\ kx_boot.pc = "files"
    /\ \E archive \in {ArchiveWanted(kx_boot.nfiles, kx_boot.arc)} :
          kx_boot' = [kx_boot EXCEPT
              !.archive = archive,
              !.pc = IF archive /\ kx_boot.plain THEN "exit" ELSE "focus",
              !.exit = IF archive /\ kx_boot.plain THEN 1 ELSE 0]
    /\ UNCHANGED <<kx_cfg, kx_pos, kx_hash, kx_b64, kx_main, notKx>>

\* wfp: the focus provider when chk_focus is set and it finds the own window
StartFocus ==
    /\ kx_boot.pc = "focus"
    /\ kx_boot' = [kx_boot EXCEPT
           !.wfp = kx_boot.focus = "ok",
           !.pc = IF kx_boot.focus = "ok" THEN "await" ELSE "source"]
    /\ UNCHANGED <<kx_cfg, kx_pos, kx_hash, kx_b64, kx_main, notKx>>

\* one pass of the loop that waits for the target window: hwnd is assigned
StartAwait(switched) ==
    /\ kx_boot.pc = "await"
    /\ kx_boot' = [kx_boot EXCEPT
           !.hwnd = TRUE,
           !.pc = IF switched THEN "source" ELSE "await"]
    /\ UNCHANGED <<kx_cfg, kx_pos, kx_hash, kx_b64, kx_main, notKx>>

StartSource ==
    /\ kx_boot.pc = "source"
    /\ kx_boot' = [kx_boot EXCEPT
           !.stages = StagesOf(kx_boot.archive, kx_boot.plain),
           !.pc = "typist"]
    /\ UNCHANGED <<kx_cfg, kx_pos, kx_hash, kx_b64, kx_main, notKx>>

\* kbd = Typist(ar, wfp, hwnd, use_xdt, efficiency): the local hwnd is read
StartTypist ==
    /\ kx_boot.pc = "typist"
    /\ kx_boot' = IF kx_boot.hwnd
                  THEN [kx_boot EXCEPT !.typist = TRUE, !.pc = "header"]
                  ELSE [kx_boot EXCEPT !.pc = "crash", !.exit = 1]
    /\ UNCHANGED <<kx_cfg, kx_pos, kx_hash, kx_b64, kx_main, notKx>>

\* kbd.put of the header, of the payload lines, of the footer
StartPut ==
    /\ kx_boot.pc \in {"header", "payload", "footer"}
    /\ kx_boot' = [kx_boot EXCEPT
           !.typed = Append(@, kx_boot.pc),
           !.pc = IF kx_boot.pc = "header" THEN "payload"
                  ELSE IF kx_boot.pc = "payload" THEN "footer" ELSE "done"]
    /\ UNCHANGED <<kx_cfg, kx_pos, kx_hash, kx_b64, kx_main, notKx>>

InitBoot ==
    /\ kx_cfg = [plain |-> FALSE, wrap |-> 0, src |-> <<>>]
    /\ kx_pos = 0
    /\ kx_hash = NewStreamHash
    /\ kx_b64 = NewStreamBase64
    /\ kx_main = [leftovers |-> <<>>, puts |-> <<>>, md5 |-> <<>>, pc |-> "idle"]
    /\ kx_boot \in [pc : {"files"}, nfiles : 1 .. MaxCmdFiles, arc : BOOLEAN,
                    plain : BOOLEAN, focus : FocusCases, archive : {FALSE},
                    wfp : {FALSE}, hwnd : {FALSE}, stages : {<<>>},
                    typist : {FALSE}, typed : {<<>>}, exit : {0}]
    /\ IdleVle
    /\ IdleAx
    /\ IdleVx
    /\ IdleKb
    /\ IdleHx

NextBoot ==
    \/ StartDecide
    \/ StartFocus
    \/ \E switched \in BOOLEAN : StartAwait(switched)
    \/ StartSource
    \/ StartTypist
    \/ StartPut

SpecBoot == InitBoot /\ [][NextBoot]_vars

\* "tar" is among the stages
HasTar(stages) == \E i \in 1 .. Len(stages) : stages[i] = "tar"

\* C19: the archive decision is "more than one file, or -a"; the tar source
\* is built exactly for an archive; and with -p an archive ends main with
\* exit status 1 with no stage built, no Typist and no kbd.put.
C19_Packaging ==
    /\ kx_boot.pc \notin {"idle", "files"} =>
          kx_boot.archive = (kx_boot.nfiles > 1 \/ kx_boot.arc)
    /\ kx_boot.stages # <<>> => (HasTar(kx_boot.stages) <=> kx_boot.archive)
    /\ (kx_boot.pc \notin {"idle", "files"} /\ kx_boot.plain
           /\ (kx_boot.nfiles > 1 \/ kx_boot.arc)) =>
          /\ kx_boot.pc = "exit"
          /\ kx_boot.exit = 1
          /\ kx_boot.stages = <<>>
          /\ ~kx_boot.typist
          /\ kx_boot.typed = <<>>

\* one file, -a and -p: main has exited
C19_Witness ==
    /\ kx_boot.pc = "exit"
    /\ kx_boot.nfiles = 1
    /\ kx_boot.arc
    /\ kx_boot.plain

\* one file without -a went out through the file source
C19_WitnessFile ==
    /\ kx_boot.pc = "done"
    /\ kx_boot.nfiles = 1
    /\ ~kx_boot.arc
    /\ kx_boot.stages[1] = "file"

\* C20: without window-focus detection (missing, switched off with -nf, or
\* failing at startup) main goes on with wfp unset: it does not end in an
\* error, and once it is over it has typed header, payload and footer.
C20_FocusOptional ==
    kx_boot.focus # "ok" =>
        /\ kx_boot.pc # "crash"
        /\ kx_boot.wfp = FALSE
        /\ kx_boot.pc = "done" => kx_boot.typed = <<"header", "payload", "footer">>

(***************************************************************************)
(* Keyboard transmitter: the Typist with its two threads scheduled fairly. *)
(* The thread _w takes an item whenever the queue has one, and main, which *)
(* makes a bounded number of puts, goes on to end_input as soon as the     *)
(* queue has room.                                                         *)
(***************************************************************************)
SpecKbdLive == SpecKbd /\ WF_vars(KbW) /\ WF_vars(KbEndInput)

\* C21: once the typing thread has seen the focus lost, the queue is
\* eventually drained and the thread has taken the end marker and ended, so
\* that main, which waits for the queue to be empty, returns.
C21_Termination ==
    (kb_lost # <<>>) ~> (kb_wpc = "end" /\ kb_q = <<>>)

\* the same for the runs in which the thread could set self.dead
C21_WhenDead ==
    kb_dead ~> (kb_wpc = "end" /\ kb_q = <<>>)

MaxFails == 30

\* reads it takes to get one bitmap when the pipe delivers it in pieces
FrameParts == 2

\* the different bitmaps the capture can deliver
Pics == {1, 2}

\* the lines FFmpeg.run can meet before a bitmap: the frame marker, a y4m
\* header that matches re_size, and anything else
CapLines == {"FRAME", "meta", "junk"}

\* an empty read in FFmpeg.run: return when the process has exited, else count
\* it, sleep and retry, and raise at the 30th
FfEmptyRead(ff) ==
    IF ff.proc = "exited"
    THEN [ff EXCEPT !.tpc = "exited"]
    ELSE IF ff.fails + 1 < MaxFails
         THEN [ff EXCEPT !.fails = @ + 1]
         ELSE [ff EXCEPT !.fails = @ + 1, !.tpc = "raised"]

\* FFmpeg.run after the last part of a bitmap: drop a repeat of lastframe,
\* else store it in self.yuv
FfStore(ff) ==
    IF ff.pic = ff.last
    THEN [ff EXCEPT !.tpc = "line", !.rem = 0, !.fails = 0]
    ELSE [ff EXCEPT !.tpc = "line", !.rem = 0, !.fails = 0, !.last = ff.pic,
                    !.yuv = ff.pic]

\* FFmpeg.run reading one line; the pipe has data while the capture process
\* runs and is at its end once the process closed its output
FfLine(line, pic) ==
    /\ vx_ff.tpc = "line"
    /\ vx_ff.mpc # "done"
    /\ \/ /\ vx_ff.proc = "running"
          /\ line = "FRAME"
          /\ vx_ff' = [vx_ff EXCEPT !.tpc = "body0", !.rem = FrameParts,
                                    !.pic = pic, !.fails = 0]
       \/ /\ vx_ff.proc = "running"
          /\ line = "meta"
          /\ vx_ff' = [vx_ff EXCEPT !.fails = 0]
       \/ /\ vx_ff.proc = "running"
          /\ line = "junk"
          /\ vx_ff' = [vx_ff EXCEPT !.tpc = "raised"]
       \/ /\ vx_ff.proc # "running"
          /\ vx_ff' = FfEmptyRead(vx_ff)
    /\ UNCHANGED notFf

\* FFmpeg.run reading k parts of the bitmap: the read before the loop
\* ("body0", an empty one is not counted) and the reads of the loop
FfBody(k) ==
    /\ vx_ff.tpc \in {"body0", "body"}
    /\ vx_ff.mpc # "done"
    /\ k \in 0 .. vx_ff.rem
    /\ (k > 0) = (vx_ff.proc = "running")
    /\ \/ /\ k = vx_ff.rem
          /\ vx_ff' = FfStore(vx_ff)
       \/ /\ 0 < k
          /\ k < vx_ff.rem
          /\ vx_ff' = [vx_ff EXCEPT !.tpc = "body", !.rem = @ - k, !.fails = 0]
       \/ /\ k = 0
          /\ vx_ff.tpc = "body0"
          /\ vx_ff' = [vx_ff EXCEPT !.tpc = "body", !.fails = 0]
       \/ /\ k = 0
          /\ vx_ff.tpc = "body"
          /\ vx_ff' = FfEmptyRead(vx_ff)
    /\ UNCHANGED notFf

\* the capture process closes its output, and exits
FfProc ==
    /\ vx_ff.mpc # "done"
    /\ \/ /\ vx_ff.proc = "running"
          /\ vx_ff' = [vx_ff EXCEPT !.proc = "closed"]
       \/ /\ vx_ff.proc \in {"running", "closed"}
          /\ vx_ff' = [vx_ff EXCEPT !.proc = "exited"]
    /\ UNCHANGED notFf

\* vxr main: one pass of the inner loop, take_yuv, and the comparison with pyuv
MainTake ==
    /\ vx_ff.mpc = "wait"
    /\ vx_ff' = [vx_ff EXCEPT !.got = vx_ff.yuv,
                              !.yuv = 0,
                              !.pyuv = IF vx_ff.yuv # 0 THEN vx_ff.yuv ELSE @,
                              !.mpc = IF vx_ff.yuv # 0 /\ vx_ff.yuv # vx_ff.pyuv
                                      THEN "decode" ELSE "wait"]
    /\ UNCHANGED notFf

\* vxr main: the rest of the pass; complete is TRUE when asm.put returns True
\* and main returns
MainDecode(complete) ==
    /\ vx_ff.mpc = "decode"
    /\ vx_ff' = [vx_ff EXCEPT !.mpc = IF complete THEN "done" ELSE "wait"]
    /\ UNCHANGED notFf

InitCap ==
    /\ vx_ff = [NoFf EXCEPT !.proc = "running", !.tpc = "line", !.mpc = "wait"]
    /\ ax_fl = NoFl
    /\ kx_tar = NoTar
    /\ kx_wl = NoWl
    /\ ax_dbg = NoDbg
    /\ ax_th = NoTh
    /\ IdleVle
    /\ IdleAx
    /\ IdleVx
    /\ IdleKb
    /\ IdleKx

NextCap ==
    \/ \E line \in CapLines, pic \in Pics : FfLine(line, pic)
    \/ \E k \in 0 .. FrameParts : FfBody(k)
    \/ FfProc
    \/ MainTake
    \/ \E complete \in BOOLEAN : MainDecode(complete)

SpecCap == InitCap /\ [][NextCap]_vars

\* the main thread keeps polling, and every thread gets to run
SpecCapLive ==
    /\ SpecCap
    /\ WF_vars(MainTake)
    /\ WF_vars(\E complete \in BOOLEAN : MainDecode(complete))
    /\ WF_vars(\E line \in CapLines, pic \in Pics : FfLine(line, pic))
    /\ WF_vars(\E k \in 0 .. FrameParts : FfBody(k))

CapStopped == vx_ff.tpc \in {"exited", "raised"}

\* C23: once the capture thread has stopped, by giving up after its retries
\* or because the capture process exited, the main thread stops waiting and
\* the process ends.
C23_NoIndefiniteWait == CapStopped ~> (vx_ff.mpc = "done")

\* the retries of the capture thread are bounded, and it does stop once the
\* capture process has exited
C23_CaptureBounded ==
    /\ [](vx_ff.fails <= MaxFails)
    /\ (vx_ff.proc = "exited") ~> (CapStopped \/ vx_ff.mpc = "done")

(***************************************************************************)
(* Audio debug utilities: demux.py (splitter) and mux.py (joiner)          *)
(***************************************************************************)
MaxNf == 3

MaxDbgLen == 12

\* the read sizes, 4096 and 1024 bytes in the source, scaled down
DemuxReadSz == 4

MuxReadSz == 2

\* an input of n bytes; neither program looks at the value of a byte, so each
\* byte carries its own position
DbgInput(n) == [i \in 1 .. n |-> i]

\* demux.py on a non-empty read: without the remainder carried to the next read
DemuxCutNoCarry(buf, nf) == [buf |-> buf, rem |-> <<>>]

\* demux.py on a non-empty read: the part of buf that is a multiple of nf
\* long, and the remainder kept for the next pass
DemuxCut(buf, nf) ==
    [buf |-> Take(buf, Len(buf) - (Len(buf) % nf)),
     rem |-> Drop(buf, Len(buf) - (Len(buf) % nf))]

\* demux.py: f[n].write(buf[n::nf]) for every file
DemuxWrite(files, buf, nf) ==
    [n \in 1 .. nf |-> files[n] \o Stride(buf, n - 1, nf)]

\* demux.py: one pass of the loop; the read returns k bytes, fewer than asked
\* for when standard input is slow or near its end
DemuxStep(k) ==
    /\ ax_dbg.dpc = "run"
    /\ k = DemuxReadSz \/ k < Len(ax_dbg.in)
    /\ \E got \in {Take(ax_dbg.in, k)} :
          \/ /\ got # <<>>
             /\ \E c \in {DemuxCut(ax_dbg.rem \o got, ax_dbg.nf)} :
                   ax_dbg' = [ax_dbg EXCEPT
                                 !.in = Drop(@, k),
                                 !.rem = c.rem,
                                 !.files = DemuxWrite(@, c.buf, ax_dbg.nf)]
          \/ /\ got = <<>>
             /\ ax_dbg.rem = <<>>
             /\ ax_dbg' = [ax_dbg EXCEPT !.dpc = "done"]
          \/ /\ got = <<>>
             /\ ax_dbg.rem # <<>>
             /\ ax_dbg' = [ax_dbg EXCEPT
                              !.rem = <<>>,
                              !.files = DemuxWrite(@, ax_dbg.rem, ax_dbg.nf)]
    /\ UNCHANGED notDbg

\* mux.py: the file whose read comes back empty first in this pass, 0 if none
MuxFirstEmpty(d) ==
    IF \E n \in 1 .. d.nf : d.pos[n] >= Len(d.files[n])
    THEN CHOOSE n \in 1 .. d.nf :
             /\ d.pos[n] >= Len(d.files[n])
             /\ \A k \in 1 .. (n - 1) : d.pos[k] < Len(d.files[k])
    ELSE 0

\* mux.py: f[n].read(1024) for the files up to number last
MuxReads(d, last) ==
    [n \in 1 .. last |-> Slice(d.files[n], d.pos[n], d.pos[n] + MuxReadSz)]

MuxAdvance(d, last) ==
    [n \in 1 .. d.nf |->
        IF n <= last THEN Min(d.pos[n] + MuxReadSz, Len(d.files[n])) ELSE d.pos[n]]

\* a joiner that writes what it has read in the pass before it stops
MuxEndFlush(d, e) ==
    [d EXCEPT !.pos = MuxAdvance(d, e - 1),
              !.out = IF e > 1 THEN @ \o Zip(MuxReads(d, e - 1)) ELSE @,
              !.mpc = "crashed"]

\* mux.py after the empty read of file e: bs is None, and zip(*bs) raises
\* TypeError; nothing of this pass is written
MuxEnd(d, e) ==
    [d EXCEPT !.pos = MuxAdvance(d, e - 1), !.mpc = "crashed"]

\* mux.py: one pass of the loop, once the splitter has ended
MuxPass ==
    /\ ax_dbg.dpc = "done"
    /\ ax_dbg.mpc = "run"
    /\ \E e \in {MuxFirstEmpty(ax_dbg)} :
          \/ /\ e # 0
             /\ ax_dbg' = MuxEnd(ax_dbg, e)
          \/ /\ e = 0
             /\ ax_dbg' = [ax_dbg EXCEPT
                              !.pos = MuxAdvance(ax_dbg, ax_dbg.nf),
                              !.out = @ \o Zip(MuxReads(ax_dbg, ax_dbg.nf))]
    /\ UNCHANGED notDbg

\* both programs started on nf files and an input of any length
InitDbg ==
    /\ \E nf \in 1 .. MaxNf, len \in 0 .. MaxDbgLen :
          ax_dbg = [nf |-> nf, B |-> DbgInput(len), in |-> DbgInput(len),
                    rem |-> <<>>, files |-> [n \in 1 .. nf |-> <<>>],
                    dpc |-> "run", pos |-> [n \in 1 .. nf |-> 0],
                    out |-> <<>>, mpc |-> "run"]
    /\ vx_ff = NoFf
    /\ ax_fl = NoFl
    /\ kx_tar = NoTar
    /\ kx_wl = NoWl
    /\ ax_th = NoTh
    /\ IdleVle
    /\ IdleAx
    /\ IdleVx
    /\ IdleKb
    /\ IdleKx

NextDbg ==
    \/ \E k \in 1 .. DemuxReadSz : DemuxStep(k)
    \/ MuxPass

SpecDbg == InitDbg /\ [][NextDbg]_vars

\* C24: for nf >= 1 and an input whose length is a multiple of nf, the joiner,
\* run on the files the splitter wrote, has written exactly the input when it
\* ends; until then it has written a part of it from the start.
C24_RoundTrip ==
    (ax_dbg.mpc # "idle" /\ Len(ax_dbg.B) % ax_dbg.nf = 0) =>
        /\ IsPrefix(ax_dbg.out, ax_dbg.B)
        /\ ax_dbg.mpc = "crashed" => ax_dbg.out = ax_dbg.B

\* three files, an input of several reads that leaves a remainder to carry,
\* joined to the end
C24_Witness ==
    /\ ax_dbg.mpc = "crashed"
    /\ ax_dbg.nf = 3
    /\ Len(ax_dbg.B) = 9
    /\ ax_dbg.out = ax_dbg.B

\* the joiner run on files of any lengths: byte j of file n is 10 * n + j
MaxDbgFile == 5

DbgFile(n, len) == [j \in 1 .. len |-> 10 * n + j]

InitMux ==
    /\ \E nf \in 1 .. MaxNf :
          \E lens \in [1 .. nf -> 0 .. MaxDbgFile] :
             ax_dbg = [nf |-> nf, B |-> <<>>, in |-> <<>>, rem |-> <<>>,
                       files |-> [n \in 1 .. nf |-> DbgFile(n, lens[n])],
                       dpc |-> "done", pos |-> [n \in 1 .. nf |-> 0],
                       out |-> <<>>, mpc |-> "run"]
    /\ vx_ff = NoFf
    /\ ax_fl = NoFl
    /\ kx_tar = NoTar
    /\ kx_wl = NoWl
    /\ ax_th = NoTh
    /\ IdleVle
    /\ IdleAx
    /\ IdleVx
    /\ IdleKb
    /\ IdleKx

NextMux == MuxPass

SpecMux == InitMux /\ [][NextMux]_vars

\* the joiner gets to run
SpecMuxLive == SpecMux /\ WF_vars(MuxPass)

\* the number of bytes of the shortest file
Shortest(files) == Only({m \in 0 .. MaxDbgFile + 1 :
                            /\ \A n \in DOMAIN files : Len(files[n]) >= m
                            /\ \E n \in DOMAIN files : Len(files[n]) = m})

\* byte j of file n, for j = 1 .. m and for every file n in turn
InterleaveFirst(files, m) ==
    [i \in 1 .. (m * Len(files)) |->
        files[((i - 1) % Len(files)) + 1][((i - 1) \div Len(files)) + 1]]

\* C25: for files of any lengths the joiner ends, in the pass in which the
\* read of a file comes back empty, and what it has written by then is the
\* interleave of the first m bytes of every file, m the length of the
\* shortest; it writes nothing after its end.
C25_Truncation ==
    /\ <>(ax_dbg.mpc = "crashed")
    /\ [](ax_dbg.mpc = "crashed" =>
            /\ ax_dbg.out = InterleaveFirst(ax_dbg.files, Shortest(ax_dbg.files))
            /\ \E n \in 1 .. ax_dbg.nf : ax_dbg.pos[n] = Len(ax_dbg.files[n]))
    /\ [][ax_dbg.mpc = "crashed" => ax_dbg'.out = ax_dbg.out]_vars

\* three files of different lengths, the shortest neither first nor empty,
\* joined in more than one pass
C25_Witness ==
    /\ ax_dbg.mpc = "crashed"
    /\ ax_dbg.B = <<>>
    /\ ax_dbg.nf = 3
    /\ Len(ax_dbg.files[1]) = 5
    /\ Len(ax_dbg.files[2]) = 3
    /\ Len(ax_dbg.files[3]) = 4
    /\ Len(ax_dbg.out) = 9

(***************************************************************************)
(* Audio: the reader threads, A.emit and the emitter thread                *)
(***************************************************************************)
\* reads of standard input axt A.run passes on to the encoders
MaxFeeds == 2

\* samples an encoder puts out for one read of standard input
PerFeed == 1

\* most samples one read of A.rd of axt returns; stands for 1024
RdSamples == 2

\* A.rd of axt waits while its channel holds more samples; stands for 1024 * 256
SampleCap == 1

\* most samples per channel one A.emit of axt takes; stands for 32768
EmitCap == 2

\* empty polls in a row the emitter thread of axt takes before it gives up
SpinLimit == 100

\* what the encoder of channel ch puts out in all: sample i of channel ch is
\* 10 * ch + i
ThSamples(ch) == [i \in 1 .. (MaxFeeds * PerFeed) |-> 10 * ch + i]

\* what the decoder of channel ch puts out in all: the priming pad and the
\* frames of two reads of the transmitter
ThBytes(ch, nch) ==
    Zeros(PadZeros) \o <<255>>
        \o AxtFrames([i \in 1 .. 2 |-> i], nch)[ch]
        \o AxtFrames([i \in 1 .. 2 |-> 2 + i], nch)[ch]

\* axt A.run: a read of standard input returned data, and the frames went to
\* the encoders
ThtMainRead ==
    /\ ax_th.tool = "axt"
    /\ ax_th.mpc = "read"
    /\ ax_th.fed < MaxFeeds
    /\ ax_th' = [ax_th EXCEPT !.fed = @ + 1]
    /\ UNCHANGED notTh

\* axt A.run: end of standard input; the encoder inputs are closed and the
\* emitter thread is joined
ThtMainClose ==
    /\ ax_th.tool = "axt"
    /\ ax_th.mpc = "read"
    /\ ax_th' = [ax_th EXCEPT !.mpc = "closed"]
    /\ UNCHANGED notTh

\* axt A.run: emitter.join() returns, and the process ends
ThtMainJoin ==
    /\ ax_th.tool = "axt"
    /\ ax_th.mpc = "closed"
    /\ ax_th.epc = "gone"
    /\ ax_th' = [ax_th EXCEPT !.mpc = "exit"]
    /\ UNCHANGED notTh

\* axt A.rd: one pass that reads k samples of channel ch
ThtRd(ch, k) ==
    /\ ax_th.tool = "axt"
    /\ ax_th.mpc # "exit"
    /\ ch \in 1 .. ax_th.nch
    /\ Len(ax_th.buf[ch]) <= SampleCap
    /\ k \in 1 .. Min(RdSamples, ax_th.fed * PerFeed - ax_th.rdpos[ch])
    /\ ax_th' = [ax_th EXCEPT
                    !.rdpos[ch] = @ + k,
                    !.buf[ch] = @ \o SubSeq(ax_th.full[ch], ax_th.rdpos[ch] + 1,
                                            ax_th.rdpos[ch] + k)]
    /\ UNCHANGED notTh

\* axt A.emit: n, the samples it takes from every channel
EmitCount(samples) == Min(EmitCap, MinLen(samples))

\* axt A.emitter: one pass, A.emit included
ThtPoll ==
    /\ ax_th.tool = "axt"
    /\ ax_th.epc = "run"
    /\ ax_th.mpc # "exit"
    /\ \E n \in {EmitCount(ax_th.buf)} :
          \/ /\ n > 0
             /\ ax_th' = [ax_th EXCEPT
                             !.buf = [ch \in 1 .. ax_th.nch |-> Drop(ax_th.buf[ch], n)],
                             !.out = @ \o Zip([ch \in 1 .. ax_th.nch |->
                                                  Take(ax_th.buf[ch], n)]),
                             !.spins = 0]
          \/ /\ n = 0
             /\ ax_th' = [ax_th EXCEPT
                             !.spins = @ + 1,
                             !.epc = IF ax_th.spins + 1 > SpinLimit
                                     THEN "gone" ELSE "run"]
    /\ UNCHANGED notTh

\* axr A.rd: one pass on a read of k bytes of channel ch
ThrRd(ch, k) ==
    /\ ax_th.tool = "axr"
    /\ ch \in 1 .. ax_th.nch
    /\ k \in 1 .. Min(MaxRd, Len(ax_th.full[ch]) - ax_th.rdpos[ch])
    /\ \E r \in {RdChunk(ax_th.pad[ch], SubSeq(ax_th.full[ch], ax_th.rdpos[ch] + 1,
                                               ax_th.rdpos[ch] + k))} :
          ax_th' = [ax_th EXCEPT !.rdpos[ch] = @ + k,
                                 !.pad[ch] = r.pad,
                                 !.buf[ch] = @ \o r.add,
                                 !.res = "none"]
    /\ UNCHANGED notTh

\* axr A.emit on frames with the magic
ThrEmit ==
    /\ ax_th.tool = "axr"
    /\ \E r \in {AxrScan(ax_th.buf, 1, <<>>)} :
          \/ /\ r.res = "ok"
             /\ \E bufs \in {[ch \in 1 .. ax_th.nch |->
                                 SubSeq(ax_th.buf[ch], 5, r.szs[ch] + 4)]} :
                   ax_th' = [ax_th EXCEPT
                                !.buf = [ch \in 1 .. ax_th.nch |->
                                            Drop(ax_th.buf[ch], r.szs[ch] + 4)],
                                !.took = [ch \in 1 .. ax_th.nch |->
                                             ax_th.took[ch] \o
                                             Take(ax_th.buf[ch], r.szs[ch] + 4)],
                                !.out = IF bufs[1] = <<>> THEN @
                                        ELSE @ \o AxrMux(bufs, r.szs),
                                !.res = IF bufs[1] = <<>> THEN "empty"
                                        ELSE "written"]
          \/ /\ r.res # "ok"
             /\ ax_th' = [ax_th EXCEPT !.res = "wait"]
    /\ UNCHANGED notTh

InitTh ==
    /\ \E tool \in {"axt", "axr"}, nch \in 1 .. MaxNch :
          ax_th = [tool |-> tool, nch |-> nch,
                   full |-> [ch \in 1 .. nch |->
                                IF tool = "axt" THEN ThSamples(ch)
                                ELSE ThBytes(ch, nch)],
                   fed |-> 0,
                   rdpos |-> [ch \in 1 .. nch |-> 0],
                   pad |-> [ch \in 1 .. nch |-> TRUE],
                   buf |-> [ch \in 1 .. nch |-> <<>>],
                   took |-> [ch \in 1 .. nch |-> <<>>],
                   out |-> <<>>, spins |-> 0,
                   epc |-> IF tool = "axt" THEN "run" ELSE "idle",
                   mpc |-> IF tool = "axt" THEN "read" ELSE "idle",
                   res |-> "none"]
    /\ vx_ff = NoFf
    /\ ax_fl = NoFl
    /\ kx_tar = NoTar
    /\ kx_wl = NoWl
    /\ ax_dbg = NoDbg
    /\ IdleVle
    /\ IdleAx
    /\ IdleVx
    /\ IdleKb
    /\ IdleKx

NextTh ==
    \/ ThtMainRead
    \/ ThtMainClose
    \/ ThtMainJoin
    \/ \E ch \in 1 .. MaxNch, k \in 1 .. RdSamples : ThtRd(ch, k)
    \/ ThtPoll
    \/ \E ch \in 1 .. MaxNch, k \in 1 .. MaxRd : ThrRd(ch, k)
    \/ ThrEmit

SpecTh == InitTh /\ [][NextTh]_vars

\* what A.rd has appended to the buffer of channel ch so far
ThAppended(ch) ==
    IF ax_th.tool = "axt"
    THEN Take(ax_th.full[ch], ax_th.rdpos[ch])
    ELSE Drop(Take(ax_th.full[ch], ax_th.rdpos[ch]), PadZeros + 1)

\* what A.emit has taken from the buffer of channel ch so far: for axt every
\* nch-th sample of the output
ThConsumed(ch) ==
    IF ax_th.tool = "axt"
    THEN Stride(ax_th.out, ch - 1, ax_th.nch)
    ELSE ax_th.took[ch]

\* C26: in both tools, however the reader threads and emit interleave, what
\* emit has taken from a channel followed by what the channel's buffer holds
\* is what the reader has appended, in its order: nothing is lost, repeated or
\* moved.
C26_ChannelFifo ==
    \A ch \in 1 .. ax_th.nch : ThConsumed(ch) \o ax_th.buf[ch] = ThAppended(ch)

\* two channels of axt, every sample read and emitted, in several calls
C26_Witness ==
    /\ ax_th.tool = "axt"
    /\ ax_th.nch = 2
    /\ Len(ax_th.out) = 2 * MaxFeeds * PerFeed
    /\ ax_th.spins > 0

\* two channels of axr, both frames of both channels taken
C26_WitnessAxr ==
    /\ ax_th.tool = "axr"
    /\ ax_th.nch = 2
    /\ \A ch \in 1 .. 2 : Len(ax_th.took[ch]) = 10 /\ ax_th.buf[ch] = <<>>

\* C27: the emitter thread of axt gives up only once standard input is
\* drained and the encoder inputs are closed; as long as A.run is still
\* reading, it keeps running.
C27_EmitterLifetime ==
    (ax_th.tool = "axt" /\ ax_th.epc = "gone") => ax_th.mpc # "read"

\* the emitter does not give up before its 101st empty poll in a row
C27_SpinsBounded ==
    /\ ax_th.spins <= SpinLimit + 1
    /\ ax_th.epc = "gone" => ax_th.spins = SpinLimit + 1

(***************************************************************************)
(* Audio receiver: A.emit takes a frame from every channel or from none    *)
(***************************************************************************)
\* channel n holds fewer than 4 bytes, or fewer than 4 + L for the L of its header
ShortChannel(dec, n) ==
    \/ Len(dec[n]) < 4
    \/ Len(dec[n]) < 4 + UnpackHH(dec[n]).sz

\* channel n holds a whole frame behind a header with the magic
WholeFrame(dec, n) ==
    /\ ~ShortChannel(dec, n)
    /\ UnpackHH(dec[n]).magic = AxMagic

\* C28: a call of A.emit made while some channel holds fewer than 4 bytes, or
\* fewer than 4 + L bytes for the L of its header, removes nothing from any
\* channel and writes nothing; bytes are removed, and output is written, only
\* when every channel holds a whole frame, and then each channel loses exactly
\* its 4 + L bytes.  (A step of axr that reads nothing is a call of A.emit.)
C28_AllOrNothing ==
    [][(ax_th.tool = "axr" /\ ax_th'.rdpos = ax_th.rdpos) =>
          /\ (\E n \in 1 .. ax_th.nch : ShortChannel(ax_th.buf, n)) =>
                (ax_th'.buf = ax_th.buf /\ ax_th'.out = ax_th.out)
          /\ (ax_th'.buf # ax_th.buf \/ ax_th'.out # ax_th.out) =>
                /\ \A n \in 1 .. ax_th.nch : WholeFrame(ax_th.buf, n)
                /\ ax_th'.buf = [n \in 1 .. ax_th.nch |->
                                    Drop(ax_th.buf[n],
                                         4 + UnpackHH(ax_th.buf[n]).sz)]]_vars

\* A.emit has just returned False with a whole frame waiting on one channel
\* and an incomplete one on another
C28_Witness ==
    /\ ax_th.tool = "axr"
    /\ ax_th.res = "wait"
    /\ ax_th.nch = 2
    /\ \E n \in 1 .. 2 : WholeFrame(ax_th.buf, n) /\ UnpackHH(ax_th.buf[n]).sz > 0
    /\ \E n \in 1 .. 2 : ShortChannel(ax_th.buf, n)

\* the same within a whole transfer, where the transmitter runs between the
\* calls and, under SpecAxErr, a byte may be garbled and the call may end in
\* sys.exit(1).  (Every step that leaves ax_emit other than "none" is a call
\* of A.emit or a step of the transmitter.)
C28_InTransfer ==
    [][(ax_emit' # "none" /\ ax_nch > 0) =>
          /\ (\E n \in 1 .. ax_nch : ShortChannel(ax_dec, n)) =>
                (ax_dec' = ax_dec /\ ax_out' = ax_out)
          /\ (ax_dec' # ax_dec \/ ax_out' # ax_out) =>
                /\ \A n \in 1 .. ax_nch : WholeFrame(ax_dec, n)
                /\ ax_dec' = [n \in 1 .. ax_nch |->
                                 Drop(ax_dec[n], 4 + UnpackHH(ax_dec[n]).sz)]]_vars

(***************************************************************************)
(* Keyboard transmitter: the end marker between the stages and main        *)
(***************************************************************************)
\* the last stage has yielded its None
LastStageEnded ==
    IF kx_cfg.plain THEN kx_hash.pc = "eof" ELSE kx_b64.pc = "done"

\* C29: every stage yields its data chunks and then one end marker, and every
\* consumer, the loop of main included, reads on until it gets the marker of
\* the stage above it: when main has left its loop, the last stage has yielded
\* its None and the stages above have yielded theirs.
C29_EndMarker ==
    kx_main.pc = "done" =>
        /\ kx_pos = Len(kx_cfg.src) + 1
        /\ kx_hash.pc = "eof"
        /\ LastStageEnded

\* whatever ends the loop of main, by then the stages have passed on every
\* chunk: the hash stage has yielded its None after all the chunks of the
\* stage above, and the base64 stage holds nothing back
C29_AllData ==
    kx_main.pc = "done" =>
        /\ kx_pos = Len(kx_cfg.src) + 1
        /\ kx_hash.pc = "eof"
        /\ kx_hash.out = kx_cfg.src
        /\ kx_cfg.plain \/ (kx_b64.pc \in {"eof", "done"} /\ kx_b64.buf = <<>>)

\* main has left its loop on the empty chunk the base64 stage yields at the
\* end of a stream of 3 bytes
C29_EmptyChunk ==
    /\ kx_main.pc = "done"
    /\ ~kx_cfg.plain
    /\ kx_b64.pc = "eof"
    /\ Len(Concat(kx_cfg.src)) = 3

(***************************************************************************)
(* Keyboard transmitter: what is put is what is typed                      *)
(***************************************************************************)
\* the keys the backend makes of a text
KbKeys(txt) ==
    [i \in 1 .. Len(txt) |->
        IF txt[i] = 10 THEN (IF kb_kbd = "xdotool" THEN 13 ELSE 65293) ELSE txt[i]]

\* the keys typed, then those the backend holds in its batch, then those of
\* the texts still in the queue
KbStream == kb_typed \o Concat(kb_batch) \o KbKeys(Concat(kb_q))

\* C30: as long as the typing thread has not seen the focus lost, a call of
\* Typist.put adds the keys of its text at the end of the stream "typed,
\* batched, queued", no other step changes that stream (so every text is typed
\* once, in the order of the puts: the header, put first, before the payload,
\* and the footer, put last, after it), and when the thread ends all of it has
\* been typed.
C30_TypedInOrder ==
    /\ [][kb_lost' = <<>> =>
             IF kb_nput' # kb_nput
             THEN \E txt \in KbTexts, crlf \in BOOLEAN :
                     KbStream' = KbStream \o
                                 KbKeys(IF crlf THEN Append(txt, 10) ELSE txt)
             ELSE KbStream' = KbStream]_vars
    /\ []((kb_wpc = "end" /\ kb_lost = <<>>) =>
             (kb_q = <<>> /\ kb_batch = <<>> /\ kb_typed = KbStream))

\* two different texts put, the batching backend, the thread ended with both
\* typed in the order of the puts
C30_Witness ==
    /\ kb_wpc = "end"
    /\ kb_lost = <<>>
    /\ kb_kbd = "xdotool"
    /\ kb_nput = 2
    /\ kb_typed = <<120, 13, 120>>

(***************************************************************************)
(* Dotmatrix receiver: a file header that has not arrived whole            *)
(***************************************************************************)
\* the index of the last byte of the VLE that starts after pos: the first
\* byte below 128; 0 when buf ends before it
RECURSIVE VleEnd(_, _)
VleEnd(buf, pos) ==
    IF pos >= Len(buf) THEN 0
    ELSE IF buf[pos + 1] < 128 THEN pos + 1
    ELSE VleEnd(buf, pos + 1)

\* buf holds a whole file header: size, mtime, 16 bytes of checksum, the
\* length of the name and that many bytes of name
FileHeaderComplete(buf) ==
    \E e1 \in {VleEnd(buf, 0)} :
        /\ e1 > 0
        /\ \E e2 \in {VleEnd(buf, e1)} :
            /\ e2 > 0
            /\ Len(buf) >= e2 + 16
            /\ \E e3 \in {VleEnd(buf, e2 + 16)} :
                /\ e3 > 0
                /\ Len(buf) >= e3 + VleInt(dec_vle_it(buf, e2 + 16).val)

\* the bytes of the frame a step puts
FedNow == SubSeq(vx_raw.all, vx_raw.pos + 1, vx_raw'.pos)

\* C31: when fig_no is odd and the buffer, with the bytes of the frame just
\* put, does not hold a whole file header, the put consumes no byte of the
\* buffer, leaves fig_no and the payload as they were and creates no file.
C31_IncompleteFileHeader ==
    [][(/\ vx_asm.fig_no % 2 = 1
        /\ vx_asm.exc = ""
        /\ vx_raw'.pos > vx_raw.pos
        /\ ~FileHeaderComplete(vx_asm.buf \o FedNow))
          => /\ vx_asm'.buf = vx_asm.buf \o FedNow
             /\ vx_asm'.fig_no = vx_asm.fig_no
             /\ vx_asm'.payload = vx_asm.payload
             /\ vx_asm'.fs = vx_asm.fs
             /\ vx_asm'.exc = ""
             /\ vx_rpc' = "run"]_vars

\* a file header lacks only bytes of its name: the checksum and the length
\* of the name are in the buffer, and no file exists
C31_Witness ==
    /\ vx_asm.fig_no = 1
    /\ vx_asm.exc = ""
    /\ vx_fed # <<>>
    /\ Len(vx_asm.buf) > 16
    /\ ~FileHeaderComplete(vx_asm.buf)
    /\ VleEnd(vx_asm.buf, VleEnd(vx_asm.buf, VleEnd(vx_asm.buf, 0)) + 16) > 0
    /\ vx_asm.fs = <<>>

(***************************************************************************)
(* Dotmatrix receiver: the output file of the Assembler                    *)
(***************************************************************************)
\* the file object of the payload is open
FoOpen(a) == a.payload # <<>> /\ a.payload[1].fo = "open"

\* the bytes the file of the payload has received
FoTell(a) == Len(a.fs[a.payload[1].fn].data)

\* at most one file object is open, and it is the one of the payload
OneOpen(a) == a.fds = (IF FoOpen(a) THEN 1 ELSE 0)

\* the file of the payload is closed exactly when it holds its declared
\* size, and never holds more
ClosedAtSize(a) ==
    a.payload # <<>> =>
        /\ FoTell(a) <= a.payload[1].sz
        /\ FoOpen(a) <=> FoTell(a) < a.payload[1].sz

\* C32: at most one output file is open; a file is open exactly while fig_no
\* is even and not 0; the file is closed when the bytes written reach the
\* declared size and never receives more bytes than that.
C32_FileOwnership ==
    /\ OneOpen(vx_asm)
    /\ FoOpen(vx_asm) <=> (vx_asm.fig_no % 2 = 0 /\ vx_asm.fig_no > 0)
    /\ ClosedAtSize(vx_asm)

\* the same while put has raised nothing
C32_WhileAlive ==
    vx_asm.exc = "" => C32_FileOwnership

(***************************************************************************)
(* Dotmatrix transmitter: the operator pages through the frames with any   *)
(* keys; no receiver                                                       *)
(***************************************************************************)
\* keys the operator types in a run
MaxKeys == 6

\* "x" is any key but a, d, k and ^C
PageKeys == {"a", "d", "x"}

\* getch() returns the key k
PageKey(k) ==
    /\ vx_ops < MaxKeys
    /\ vx_ops' = vx_ops + 1
    /\ VxtRun(k)
    /\ UNCHANGED <<vx_kq, vx_asm, vx_cap, vx_rpc, vx_verdict, vx_fed, vx_raw, notVx>>

NextPage == \E k \in PageKeys : PageKey(k)

SpecPage == InitVxOn(FileSets, TermSizes) /\ [][NextPage]_vars

\* the bits of all figments of the stream
RECURSIVE FigBits(_)
FigBits(figs) ==
    IF figs = <<>> THEN 0 ELSE figs[1].len * 8 + FigBits(Tail(figs))

\* the last frame of the stream: every frame carries 4 bytes of checksum and
\* one byte of frame number, frame 0 the stream header too
LastFrame(files, term) ==
    LET room  == NBits(term) - 5 * 8
        room0 == room - Len(Header0(files)) * 8
        rest  == FigBits(FigsOf(files)) - room0
    IN  IF rest <= 0 THEN 0 ELSE (rest + room - 1) \div room

\* C33: once a frame is displayed the index of the displayed frame stays
\* within 0 .. L, L the last frame of the stream, whatever keys are typed.
C33_PagingBounds ==
    vx_cur >= 0 => vx_cur <= LastFrame(vx_files, vx_term)

\* no two files of the set have the same size
DistinctSizes(files) ==
    \A i, j \in 1 .. Len(files) : i # j => files[i].sz # files[j].sz

\* the same for file sets whose sizes differ: a below frame 0 and d on frame
\* L leave the index where it was
C33_DistinctSizes ==
    [][DistinctSizes(vx_files) =>
        /\ vx_cur' >= 0 => vx_cur' <= LastFrame(vx_files, vx_term)
        /\ vx_cur >= 0 => vx_cur' >= 0
        /\ (vx_cur = LastFrame(vx_files, vx_term) /\ vx_cur' # vx_cur) =>
               vx_cur' = Max(vx_cur - 1, 0)]_vars

\* d was typed on the last frame and the index is back on it
C33_AtLast ==
    /\ DistinctSizes(vx_files)
    /\ Len(vx_files) = 2
    /\ vx_cur = LastFrame(vx_files, vx_term)
    /\ vx_cur > 0
    /\ vx_pend = [n |-> vx_cur + 1, scr |-> <<>>]
    /\ vx_ops > vx_cur + 1

\* C39: whatever keys are typed the loop never asks for a frame more than
\* one past the last memoized frame: the displayed frame is memoized, the
\* frame rendered ahead is at most the one after the last memoized one, and
\* get_frame_info never misses self.frames[nframe - 1].
C39_NoMissingPredecessor ==
    /\ vx_tpc # "crashed"
    /\ vx_cur < Len(vx_frames)
    /\ vx_pend.n <= Len(vx_frames)

\* the frame after the last one was rendered ahead and found empty, and keys
\* were typed after that
C39_Witness ==
    /\ vx_cur >= 1
    /\ vx_cur = Len(vx_frames) - 1
    /\ vx_pend = [n |-> Len(vx_frames), scr |-> <<>>]
    /\ vx_ops > vx_cur + 2
    /\ vx_tpc = "run"

(***************************************************************************)
(* Keyboard transmitter: the loop of main that cuts the encoded text into  *)
(* lines of ar.length letters, for any integer -l takes (type=int)         *)
(***************************************************************************)
\* the widest line, and the narrowest below zero
MaxWrap == 3

\* buffers the stream yields
MaxWlChunks == 2

\* letters of one buffer
MaxWlChunk == 4

\* passes of the while loop that are counted
MaxPasses == 3

WlWraps == (0 - MaxWrap) .. MaxWrap

\* buf[:n] of Python
SliceTo(buf, n) ==
    IF n >= 0 THEN Take(buf, Min(n, Len(buf))) ELSE Take(buf, Max(Len(buf) + n, 0))

\* buf[n:] of Python
SliceFrom(buf, n) ==
    IF n >= 0 THEN Drop(buf, Min(n, Len(buf))) ELSE Drop(buf, Max(Len(buf) + n, 0))

\* for buf in s.collect(): buf = leftovers + buf, a buffer of k letters
WlChunk(k) ==
    /\ kx_wl.pc = "for"
    /\ kx_wl.chunks < MaxWlChunks
    /\ kx_wl' = [kx_wl EXCEPT !.buf = @ \o Rep(120, k), !.chunks = @ + 1,
                              !.passes = 0, !.pc = "while"]
    /\ UNCHANGED notWl

\* a pass of "while len(buf) >= wrap": kbd.put(buf[:wrap]); buf = buf[wrap:]
WlPass ==
    /\ kx_wl.pc = "while"
    /\ Len(kx_wl.buf) >= kx_wl.wrap
    /\ kx_wl' = [kx_wl EXCEPT !.buf = SliceFrom(@, kx_wl.wrap),
                              !.passes = Min(@ + 1, MaxPasses)]
    /\ UNCHANGED notWl

\* the while loop is over: leftovers = buf
WlOut ==
    /\ kx_wl.pc = "while"
    /\ Len(kx_wl.buf) < kx_wl.wrap
    /\ kx_wl' = [kx_wl EXCEPT !.pc = "for"]
    /\ UNCHANGED notWl

\* the stream is over
WlEnd ==
    /\ kx_wl.pc = "for"
    /\ kx_wl' = [kx_wl EXCEPT !.pc = "done"]
    /\ UNCHANGED notWl

InitWl ==
    /\ kx_wl \in [wrap : WlWraps, buf : {<<>>}, chunks : {0}, passes : {0}, pc : {"for"}]
    /\ vx_ff = NoFf
    /\ ax_fl = NoFl
    /\ kx_tar = NoTar
    /\ ax_dbg = NoDbg
    /\ ax_th = NoTh
    /\ IdleVle
    /\ IdleAx
    /\ IdleVx
    /\ IdleKb
    /\ IdleKx

NextWl ==
    \/ \E k \in 1 .. MaxWlChunk : WlChunk(k)
    \/ WlPass
    \/ WlOut
    \/ WlEnd

SpecWl == InitWl /\ [][NextWl]_vars

\* the main thread runs
SpecWlLive == SpecWl /\ WF_vars(WlPass) /\ WF_vars(WlOut)

\* C40: for every integer width the while loop ends on every buffer, and
\* each of its passes leaves the buffer strictly shorter.
C40_WrapTerminates ==
    /\ (kx_wl.pc = "while") ~> (kx_wl.pc = "for")
    /\ [][(kx_wl.pc = "while" /\ kx_wl'.pc = "while")
            => Len(kx_wl'.buf) < Len(kx_wl.buf)]_vars

\* the same for the widths above 0
C40_PositiveWidth ==
    /\ (kx_wl.pc = "while" /\ kx_wl.wrap > 0) ~> (kx_wl.pc = "for")
    /\ [][(kx_wl.pc = "while" /\ kx_wl'.pc = "while" /\ kx_wl.wrap > 0)
            => Len(kx_wl'.buf) < Len(kx_wl.buf)]_vars

\* with a width of 0 or less the loop is still running after MaxPasses
\* passes on one buffer
C40_StillCutting ==
    /\ kx_wl.pc = "while"
    /\ kx_wl.wrap <= 0
    /\ kx_wl.passes = MaxPasses
    /\ Len(kx_wl.buf) >= kx_wl.wrap

(***************************************************************************)
(* Keyboard transmitter: the lines of the encoded stream                   *)
(***************************************************************************)
\* the texts of the payload lines main has put
PayloadLines ==
    LET line(p) == ~p.footer
        puts    == SelectSeq(kx_main.puts, line)
    IN  [i \in 1 .. Len(puts) |-> puts[i].txt]

\* C34: without -p, however the stream is cut into chunks, every line main
\* puts but the last has exactly ar.length letters, the last has 1 to
\* ar.length, and the lines, with what main still holds, are the output of
\* the base64 stage.
C34_LineWrap ==
    ~kx_cfg.plain =>
        /\ \A i \in 1 .. Len(PayloadLines) :
              IF i < Len(PayloadLines) \/ kx_main.pc = "loop"
              THEN Len(PayloadLines[i]) = kx_cfg.wrap
              ELSE Len(PayloadLines[i]) \in 1 .. kx_cfg.wrap
        /\ Len(kx_main.leftovers) < kx_cfg.wrap
        /\ Concat(PayloadLines) \o (IF kx_main.pc = "loop" THEN kx_main.leftovers ELSE <<>>)
               = Concat(kx_b64.out)
        /\ kx_main.pc = "done" => Concat(PayloadLines) = b64encode(Concat(kx_cfg.src))

\* main is done with a stream that came in several chunks: full lines, then
\* a shorter one
C34_Witness ==
    /\ ~kx_cfg.plain
    /\ kx_main.pc = "done"
    /\ Len(kx_cfg.src) >= 2
    /\ Len(PayloadLines) >= 3
    /\ Len(PayloadLines[Len(PayloadLines)]) < kx_cfg.wrap

(***************************************************************************)
(* Keyboard transmitter: what main hands to the keystroke queue, header    *)
(* and footer included                                                     *)
(***************************************************************************)
\* header of main: "" with -p, else "\n", the command line "t", "\n"
KxHeader(plain) == IF plain THEN <<>> ELSE <<10, 116, 10>>

\* footer.replace("`h", md5): "" with -p, else "\n" and a command line with
\* the digest in it
KxFooter(plain, md5) == IF plain THEN <<>> ELSE <<10>> \o md5

\* what the calls of kbd.put of main have put into Typist.q: put(header,
\* False), then put(line) for every line and put(footer)
RECURSIVE PutsItems(_, _)
PutsItems(puts, plain) ==
    IF puts = <<>> THEN <<>>
    ELSE PutItems(Append(IF puts[1].footer THEN KxFooter(plain, puts[1].txt)
                         ELSE puts[1].txt, 10), <<>>)
             \o PutsItems(Tail(puts), plain)

KxQueued == PutItems(KxHeader(kx_cfg.plain), <<>>) \o PutsItems(kx_main.puts, kx_cfg.plain)

\* the payload lines, each with its "\n"
LineItems == [i \in 1 .. Len(PayloadLines) |-> Append(PayloadLines[i], 10)]

\* C35: with -p the keystroke queue receives the lines of the source and
\* nothing else: nothing before the first line and nothing after the last.
C35_PlainNoHeaderFooter ==
    kx_cfg.plain => KxQueued = LineItems

\* the header half: with -p what the queue has received starts with the
\* lines, and it is the lines alone until main leaves its loop
C35_NoHeader ==
    kx_cfg.plain =>
        /\ IsPrefix(LineItems, KxQueued)
        /\ kx_main.pc = "loop" => KxQueued = LineItems

\* with -p, main has put the footer of a source of two lines: the queue has
\* received the lines and one more "\n"
C35_EmptyLineTyped ==
    /\ kx_cfg.plain
    /\ kx_main.pc = "done"
    /\ Len(PayloadLines) = 2
    /\ KxQueued = LineItems \o <<<<10>>>>

(***************************************************************************)
(* Keyboard transmitter: StreamTar, its thread _gen and the queues between *)
(* main and the thread.  Typist.q and QFile.q are Queue(64): MaxQ items in *)
(* the model; srcdirs and srcfiles are Queue(), without a capacity.        *)
(***************************************************************************)
\* paths on the command line
MaxTarFiles == 5

\* main: s.add_file(fn["fn"]); put on a Queue() never waits
TarAddFile ==
    /\ kx_tar.gpc # "idle"
    /\ ~kx_tar.ended
    /\ kx_tar.added < kx_tar.files
    /\ kx_tar' = [kx_tar EXCEPT !.added = @ + 1,
                                !.srcfiles = Append(@, kx_tar.added + 1)]
    /\ UNCHANGED notTar

\* main: s.end_input()
TarEndInput ==
    /\ kx_tar.gpc # "idle"
    /\ ~kx_tar.ended
    /\ kx_tar.added = kx_tar.files
    /\ kx_tar' = [kx_tar EXCEPT !.ended = TRUE,
                                !.srcdirs = Append(@, 0),
                                !.srcfiles = Append(@, 0)]
    /\ UNCHANGED notTar

\* _gen: srcdir = self.srcdirs.get(); main adds no directory, so it is None
TarGenDirs ==
    /\ kx_tar.gpc = "dirs"
    /\ kx_tar.srcdirs # <<>>
    /\ kx_tar' = [kx_tar EXCEPT !.srcdirs = Tail(@), !.gpc = "files"]
    /\ UNCHANGED notTar

\* _gen: srcfile = self.srcfiles.get(), then _put, or tar.close() on None
TarGenFiles ==
    /\ kx_tar.gpc = "files"
    /\ kx_tar.srcfiles # <<>>
    /\ kx_tar' = [kx_tar EXCEPT
           !.srcfiles = Tail(@),
           !.hold = IF kx_tar.srcfiles[1] = 0 THEN <<-1, 0>> ELSE <<kx_tar.srcfiles[1]>>,
           !.gpc = IF kx_tar.srcfiles[1] = 0 THEN "close" ELSE "put"]
    /\ UNCHANGED notTar

\* QFile.write: self.q.put(buf) waits while the queue is full; after
\* tar.close() the thread puts None and ends
TarGenWrite ==
    /\ kx_tar.gpc \in {"put", "close"}
    /\ Len(kx_tar.qfile) < MaxQ
    /\ kx_tar' = [kx_tar EXCEPT
           !.qfile = Append(@, kx_tar.hold[1]),
           !.hold = Tail(@),
           !.gpc = IF Len(kx_tar.hold) > 1 THEN kx_tar.gpc
                   ELSE IF kx_tar.gpc = "put" THEN "files" ELSE "done"]
    /\ UNCHANGED notTar

\* StreamTar.collect: buf = self.qfile.q.get(); main reads the stream once
\* end_input was called
TarCollect ==
    /\ kx_tar.ended
    /\ kx_tar.qfile # <<>>
    /\ IF kx_tar.taken = <<>> THEN TRUE ELSE kx_tar.taken[Len(kx_tar.taken)] # 0
    /\ kx_tar' = [kx_tar EXCEPT !.qfile = Tail(@), !.taken = Append(@, kx_tar.qfile[1])]
    /\ UNCHANGED notTar

InitTar ==
    /\ kx_tar \in {[NoTar EXCEPT !.files = n, !.gpc = "dirs"] : n \in 1 .. MaxTarFiles}
    /\ vx_ff = NoFf
    /\ ax_fl = NoFl
    /\ ax_dbg = NoDbg
    /\ ax_th = NoTh
    /\ kx_wl = NoWl
    /\ IdleVle
    /\ IdleAx
    /\ IdleVx
    /\ IdleKb
    /\ IdleKx

NextTar ==
    \/ TarAddFile
    \/ TarEndInput
    \/ TarGenDirs
    \/ TarGenFiles
    \/ TarGenWrite
    \/ TarCollect

SpecTar == InitTar /\ [][NextTar]_vars

\* C36: the length of every queue between the threads stays within the
\* fixed capacity of the queues.
C36_BoundedHandoffs ==
    /\ Len(kx_tar.srcdirs) <= MaxQ
    /\ Len(kx_tar.srcfiles) <= MaxQ
    /\ Len(kx_tar.qfile) <= MaxQ

\* everything the thread is to write, in order
TarBlocks(n) == [i \in 1 .. n |-> i] \o <<-1, 0>>

\* the same for the queue that has a capacity: QFile.q never holds more,
\* the writer waits, and every block written reaches collect, in order
C36_OutputQueue ==
    /\ Len(kx_tar.qfile) <= MaxQ
    /\ IsPrefix(kx_tar.taken \o kx_tar.qfile \o kx_tar.hold, TarBlocks(kx_tar.files))
    /\ kx_tar.gpc = "done" => kx_tar.taken \o kx_tar.qfile = TarBlocks(kx_tar.files)

\* the keystroke queue never holds more than its capacity
C36_KeystrokeQueue == Len(kb_q) <= MaxQ

\* every path of the command line waits in srcfiles, more than a queue of
\* the capacity of the others would take
C36_AllQueued ==
    /\ kx_tar.files > MaxQ
    /\ Len(kx_tar.srcfiles) = kx_tar.files
    /\ kx_tar.gpc = "dirs"

(***************************************************************************)
(* Audio receiver: the volume history of the input loop                    *)
(***************************************************************************)
\* the latest n readings of the history
Latest(vhist, n) == Drop(vhist, Max(0, Len(vhist) - n))

\* C37: after every iteration of the input loop the volume history holds at
\* most 5 peaks, and vol, its maximum, is the maximum of the 5 latest peaks,
\* the one of this iteration included.
C37_VolumeHistory ==
    /\ Len(ax_run.vhist) <= 5
    /\ SeqMax(ax_run.vhist) = SeqMax(Latest(ax_run.vhist, 5))

\* the history holds at most 6 peaks, the latest ones in the order read
C37_SixReadings ==
    [][/\ Len(ax_run'.vhist) <= 6
       /\ \A peak \in PeakValues :
             (ax_run'.vhist # ax_run.vhist /\ ax_run'.vhist[Len(ax_run'.vhist)] = peak)
                 => ax_run'.vhist = Latest(ax_run.vhist, 5) \o <<peak>>]_vars

\* a loud peak six iterations back still sets vol
C37_StalePeak ==
    /\ Len(ax_run.vhist) = 6
    /\ ax_run.vhist[1] = 50
    /\ SeqMax(Latest(ax_run.vhist, 5)) = 5
    /\ SeqMax(ax_run.vhist) = 50

(***************************************************************************)
(* Audio transmitter: the lengths of the chunks A.run frames, at the       *)
(* widths of the source.  A buffer is its length; a read returns any       *)
(* number of bytes up to the size asked for.                               *)
(***************************************************************************)
\* iterations of the main loop
MaxFlIter == 4

\* "max supported read size"
MaxChunkLen == 32767

\* the bytes of struct.pack(">HH", ...)
FrameHdrLen == 4

\* the largest value of an "H" field
FieldMax == 65535

\* a read that leaves no room for the header
ReadSizeNoHeader(nch) == MaxChunkLen * nch

\* sys.stdin.buffer.read((32767 - 4) * self.nch)
ReadSize(nch) == (MaxChunkLen - FrameHdrLen) * nch

\* how many of the shortest and of the longest read lengths are tried
FlSpan == 4

\* the read lengths tried
FlReads(nch) ==
    {k \in (1 .. FlSpan) \cup ((ReadSize(nch) - FlSpan) .. ReadSize(nch)) : k >= 1}

\* len(buf[n :: step]) for a buffer of len bytes
StrideLen(len, n, step) == IF n >= len THEN 0 ELSE (len - n + step - 1) \div step

\* struct.pack(">HH", 0xCADE, len(b)): the length field, -1 when pack raises
\* struct.error
PackLen(len) == IF len > FieldMax THEN -1 ELSE len

\* bufs of an iteration on a buffer of len bytes
FlFrame(len) ==
    [ax_fl EXCEPT
        !.lens = [ch \in 1 .. ax_fl.nch |-> StrideLen(len, ch - 1, ax_fl.nch)],
        !.field = [ch \in 1 .. ax_fl.nch |-> PackLen(StrideLen(len, ch - 1, ax_fl.nch))],
        !.iter = @ + 1]

\* an iteration whose read returned k bytes
FlRead(k) ==
    /\ ax_fl.pc = "loop"
    /\ ax_fl.iter < MaxFlIter
    /\ k \in FlReads(ax_fl.nch)
    /\ \E n \in {(ax_fl.rem + k) % ax_fl.nch} :
          ax_fl' = [FlFrame(ax_fl.rem + k - n) EXCEPT !.rem = n]
    /\ UNCHANGED notFl

\* the read returned nothing and rem is not empty: the final iteration
FlFinal ==
    /\ ax_fl.pc = "loop"
    /\ ax_fl.rem > 0
    /\ ax_fl' = [FlFrame(ax_fl.rem) EXCEPT !.rem = 0, !.pc = "final"]
    /\ UNCHANGED notFl

\* the read returned nothing and rem is empty: break
FlEof ==
    /\ ax_fl.pc \in {"loop", "final"}
    /\ ax_fl.rem = 0
    /\ ax_fl' = [ax_fl EXCEPT !.pc = "done"]
    /\ UNCHANGED notFl

InitFl ==
    /\ ax_fl \in {[NoFl EXCEPT !.nch = n, !.pc = "loop"] : n \in 1 .. MaxNch}
    /\ vx_ff = NoFf
    /\ ax_dbg = NoDbg
    /\ ax_th = NoTh
    /\ kx_wl = NoWl
    /\ kx_tar = NoTar
    /\ IdleVle
    /\ IdleAx
    /\ IdleVx
    /\ IdleKb
    /\ IdleKx

NextFl ==
    \/ \E k \in UNION {FlReads(nch) : nch \in 1 .. MaxNch} : FlRead(k)
    \/ FlFinal
    \/ FlEof

SpecFl == InitFl /\ [][NextFl]_vars

\* C38: in every iteration, with or without bytes carried over, the payload
\* length of each channel is at most 32763 and is the value of its length
\* field; with 2 channels the framed chunks, headers included, are at most
\* 65535 bytes together.
C38_FrameLength ==
    /\ \A ch \in 1 .. Len(ax_fl.lens) :
          /\ ax_fl.lens[ch] <= MaxChunkLen - FrameHdrLen
          /\ ax_fl.field[ch] = ax_fl.lens[ch]
    /\ ax_fl.nch = 2 =>
          SeqSum(ax_fl.lens) + FrameHdrLen * Len(ax_fl.lens) <= FieldMax

\* two channels, a byte carried over and a read of the full size: both
\* chunks have the greatest length
C38_Witness ==
    /\ ax_fl.nch = 2
    /\ ax_fl.iter >= 2
    /\ ax_fl.rem = 1
    /\ ax_fl.lens = <<MaxChunkLen - FrameHdrLen, MaxChunkLen - FrameHdrLen>>

====
